---- MODULE Spec2Model ----
(***************************************************************************)
(* A model of the session/attendance tracking engine of InTime:            *)
(*   - StorageService (src/src/services/StorageService.js, the cached      *)
(*     version that starts at line 279): the attendance cache, the         *)
(*     session ledger and the history/detail aggregation;                  *)
(*   - the attendance evaluator checkNetworkAndSession and the background  *)
(*     task of src/App.js.                                                 *)
(*                                                                         *)
(* Execution model.  JavaScript runs one callback at a time; an async      *)
(* function runs synchronously up to its next `await` and resumes later.   *)
(* Every action below is one such run: from a resume point to the next     *)
(* await.  An AsyncStorage operation takes effect when it is issued (the   *)
(* native module serialises operations in issue order) and its result is   *)
(* delivered when the awaiting function resumes; a failing operation has   *)
(* no effect and rejects.  Session objects live on a heap, because the     *)
(* cache, the callers and the ledger share them by reference.              *)
(*                                                                         *)
(* Time is in milliseconds.  The local time zone is modelled with offset 0 *)
(* and without daylight-saving changes; Date.now() does not go backwards.  *)
(***************************************************************************)
EXTENDS Integers, Sequences, FiniteSets, TLC

VARIABLES
    now,        \* Date.now()
    cache,      \* the module-level cache object
    store,      \* AsyncStorage: key -> persisted text, or Null when absent
    heap,       \* session objects, by reference
    isEnding,   \* StorageService._isEnding
    proc,       \* the async invocations in flight, one record per caller
    net,        \* what NetInfo.fetch() reports
    fails,      \* store operations that may still fail
    advances,   \* clock advances so far
    finalized,  \* ghost: the segments endSession decided to record
    observe     \* which ghosts record: frames (what a completed call did),
                \* pre (the functions whose callers take a snapshot), last (the
                \* functions whose return a caller remembers), segments

vars == <<now, cache, store, heap, isEnding, proc, net, fails, advances, finalized, observe>>

----------------------------------------------------------------------------
(* Bounds of the model. *)
MaxFails == 1
MaxAdvances == 3
MaxConcAdvances == 2
MaxAppAdvances == 1
MaxEvalAdvances == 1
MaxSteadyTicks == 1210

(* Program constants. *)
MsPerDay == 24 * 60 * 60 * 1000
MinSessionMs_Mutant == 1000 - 1
MinSessionMs == 1000
HeartbeatMs_Mutant == 5000 - 1
HeartbeatMs_Lax == 60 * 60 * 1000
HeartbeatMs == 5000
ZombieMs_Mutant == 20 * 60 * 1000 + 1
ZombieMs == 20 * 60 * 1000
TzOffsetMs == 0 * 1000

Procs == {"timer", "ui", "bg"}
NumRefs == 2 * Cardinality(Procs) + 2
Refs == 1..NumRefs

----------------------------------------------------------------------------
(* JavaScript values. *)
Undefined == [t |-> "undefined"]
Null == [t |-> "null"]
Fail == [t |-> "fail"]
Val(v) == [t |-> "val", v |-> v]
Obj(r) == [t |-> "obj", r |-> r]
Free == [start |-> 0 - 1, lastActive |-> 0 - 1]

Falsy(x) == x.t \in {"undefined", "null"} \/ (x.t = "val" /\ x.v = <<>>)

(* JSON.stringify / JSON.parse: a persisted text is well formed or not;    *)
(* parsing a well-formed text gives back a copy of the value.              *)
JSONstringify(x) == [wf |-> TRUE, v |-> x]
JSONwellFormed(s) == s.wf
JSONparse(s) == s.v

(* moment(t).format('YYYY-MM-DD'): the local calendar day of t, as the     *)
(* number of the day.                                                      *)
DayKey(t) == (t + TzOffsetMs) \div MsPerDay

(* moment(t).endOf('day').valueOf(): 23:59:59.999 local of t's day.        *)
EndOfDay(t) == (DayKey(t) + 1) * MsPerDay - 1 - TzOffsetMs

(* s.replace(/^"|"$/g, ''): a string is a sequence of characters, "q" the  *)
(* double quote.  The two alternatives never overlap: a trailing quote is  *)
(* removed only from what is left after the leading one.                   *)
Last(s) == s[Len(s)]
Front(s) == SubSeq(s, 1, Len(s) - 1)
StripQuotes_Mutant(s) == s
StripQuotes(s) ==
    LET s1 == IF s # <<>> /\ Head(s) = "q" THEN Tail(s) ELSE s
    IN  IF s1 # <<>> /\ Last(s1) = "q" THEN Front(s1) ELSE s1

----------------------------------------------------------------------------
(* The engine state that StorageService functions read and write, and the  *)
(* frame of one StorageService call.                                       *)
G == [cache |-> cache, store |-> store, heap |-> heap, isEnding |-> isEnding,
      fails |-> fails, finalized |-> finalized, observe |-> observe]

NoCall == [fn |-> "none", of |-> "none", pc |-> "", seg |-> "", leaf |-> "",
           res |-> Undefined, sess |-> 0, t0 |-> 0, arg |-> Undefined,
           err |-> "", reads |-> 0, val |-> Undefined]

(* The call suspends at label pc, awaiting a store operation with result res. *)
(* Ghosts: err is the label of the first store operation of the call that  *)
(* failed, reads the number of getItem operations the call has issued.     *)
Susp(c, pc, res) ==
    [c EXCEPT !.pc = pc, !.res = res,
              !.err = IF c.err = "" /\ res = Fail THEN pc ELSE c.err,
              !.reads = IF pc \in {"get", "leaf_get"} THEN c.reads + 1 ELSE c.reads]
Enter(fn) == [NoCall EXCEPT !.fn = fn]

(* The call has completed with value v. *)
Ret(c, v) == [NoCall EXCEPT !.fn = "ret", !.of = c.fn, !.err = c.err, !.val = v,
                            !.sess = c.sess, !.t0 = c.t0, !.reads = c.reads]

(* AsyncStorage.getItem / setItem / removeItem, issued with outcome ok. *)
Failed(g) == [g EXCEPT !.fails = @ - 1]
GetItem(g, k, ok) == IF ok THEN g.store[k] ELSE Fail
Read(g, ok) == IF ok THEN g ELSE Failed(g)
SetItem(g, k, text, ok) == IF ok THEN [g EXCEPT !.store[k] = Val(text)] ELSE Failed(g)
RemoveItem(g, k, ok) == IF ok THEN [g EXCEPT !.store[k] = Null] ELSE Failed(g)
Outcome(ok) == IF ok THEN Undefined ELSE Fail

(* Allocation of a session object. *)
FreeRef(g) == CHOOSE r \in Refs : g.heap[r] = Free /\ \A q \in Refs : g.heap[q] = Free => r <= q
New(g, obj) == [g EXCEPT !.heap[FreeRef(g)] = obj]

----------------------------------------------------------------------------
(* Configuration: target SSID (display name and raw identifier), goal      *)
(* hours, manual pause.  A display name or an SSID is a sequence of        *)
(* characters; goal hours are counted in tenths of an hour.                *)

(* getTargetSSID and getRawSSID: the same code on two slots. *)
GetSlot(g, fn, k, ok) ==
    LET c == Enter(fn)
    IN  IF g.cache[k] # Undefined
        THEN [g |-> g, c |-> Ret(c, g.cache[k])]
        ELSE [g |-> Read(g, ok), c |-> [Susp(c, "get", GetItem(g, k, ok)) EXCEPT !.arg = Val(k)]]

GetSlot_resume(g, c, t, ok) ==
    IF c.res = Fail
    THEN [g |-> g, c |-> Ret(c, Null)]
    ELSE [g |-> [g EXCEPT !.cache[c.arg.v] = c.res], c |-> Ret(c, c.res)]

getTargetSSID(g, t, ok) == GetSlot(g, "getTargetSSID", "TARGET_SSID", ok)
getRawSSID(g, t, ok) == GetSlot(g, "getRawSSID", "RAW_SSID", ok)

(* Lines 305-308 and 347-350: both slots are cleared and both keys removed. *)
ClearBoth(g, c, ok) ==
    LET g1 == [g EXCEPT !.cache.TARGET_SSID = Null, !.cache.RAW_SSID = Null]
    IN  [g |-> RemoveItem(g1, "TARGET_SSID", ok), c |-> Susp(c, "rm1", Outcome(ok))]

ClearBoth_resume(g, c, t, ok) ==
    IF c.pc = "rm1" /\ c.res # Fail
    THEN [g |-> RemoveItem(g, "RAW_SSID", ok), c |-> Susp(c, "rm2", Outcome(ok))]
    ELSE [g |-> g, c |-> Ret(c, Undefined)]

clearTargetSSID(g, t, ok) == ClearBoth(g, Enter("clearTargetSSID"), ok)

setTargetSSID(g, name, rawSSID, ok) ==
    LET c == [Enter("setTargetSSID") EXCEPT !.arg = rawSSID]
    IN  IF Falsy(name)
        THEN ClearBoth(g, c, ok)
        ELSE [g |-> SetItem([g EXCEPT !.cache.TARGET_SSID = name], "TARGET_SSID", name.v, ok),
              c |-> Susp(c, "set1", Outcome(ok))]

setTargetSSID_resume(g, c, t, ok) ==
    CASE c.pc \in {"rm1", "rm2"} -> ClearBoth_resume(g, c, t, ok)
      [] c.pc = "set1" /\ c.res # Fail /\ ~Falsy(c.arg) ->
            LET cleanSSID == StripQuotes(c.arg.v)
                g1 == [g EXCEPT !.cache.RAW_SSID = Val(cleanSSID)]
            IN  [g |-> SetItem(g1, "RAW_SSID", cleanSSID, ok), c |-> Susp(c, "set2", Outcome(ok))]
      [] OTHER -> [g |-> g, c |-> Ret(c, Undefined)]

(* String(hours) and parseFloat: a persisted number is a text that parses  *)
(* back to the number; any other text parses to NaN.                       *)
NaN == 0 - 1
NumberToString(n) == [wf |-> TRUE, v |-> n]
parseFloat(text) == IF text.wf THEN text.v ELSE NaN
DefaultGoalHours == 85

getGoalHours(g, t, ok) ==
    LET c == Enter("getGoalHours")
    IN  IF g.cache.GOAL_HOURS # Undefined
        THEN [g |-> g, c |-> Ret(c, g.cache.GOAL_HOURS)]
        ELSE [g |-> Read(g, ok), c |-> Susp(c, "get", GetItem(g, "GOAL_HOURS", ok))]

getGoalHours_resume(g, c, t, ok) ==
    IF c.res = Fail
    THEN [g |-> g, c |-> Ret(c, Val(DefaultGoalHours))]
    ELSE LET parsed == IF c.res # Null THEN parseFloat(c.res.v) ELSE DefaultGoalHours
         IN  [g |-> [g EXCEPT !.cache.GOAL_HOURS = Val(parsed)], c |-> Ret(c, Val(parsed))]

setGoalHours(g, hours, ok) ==
    [g |-> SetItem([g EXCEPT !.cache.GOAL_HOURS = Val(hours)], "GOAL_HOURS",
                   NumberToString(hours), ok),
     c |-> Susp(Enter("setGoalHours"), "set", Outcome(ok))]

getManualPause(g, t, ok) ==
    LET c == Enter("getManualPause")
    IN  IF g.cache.IS_MANUAL_PAUSED # Undefined
        THEN [g |-> g, c |-> Ret(c, g.cache.IS_MANUAL_PAUSED)]
        ELSE [g |-> Read(g, ok), c |-> Susp(c, "get", GetItem(g, "IS_MANUAL_PAUSED", ok))]

getManualPause_resume(g, c, t, ok) ==
    IF c.res = Fail
    THEN [g |-> g, c |-> Ret(c, Val(FALSE))]
    ELSE LET boolVal == (c.res = Val("true"))
         IN  [g |-> [g EXCEPT !.cache.IS_MANUAL_PAUSED = Val(boolVal)], c |-> Ret(c, Val(boolVal))]

setManualPause(g, isPaused, ok) ==
    [g |-> SetItem([g EXCEPT !.cache.IS_MANUAL_PAUSED = Val(isPaused)], "IS_MANUAL_PAUSED",
                   IF isPaused THEN "true" ELSE "false", ok),
     c |-> Susp(Enter("setManualPause"), "set", Outcome(ok))]

(* setGoalHours and setManualPause after their setItem. *)
Setter_resume(g, c, t, ok) == [g |-> g, c |-> Ret(c, Undefined)]


----------------------------------------------------------------------------
(* Session management: startSession, updateSessionHeartbeat,               *)
(* getCurrentSession.  An operator named f is the run of f from its call   *)
(* to its first await; f_resume is the run from one await to the next.     *)
(* t is Date.now() and ok the outcome of the store operation issued.       *)

startSession_Mutant(g, t, ok) ==
    LET r  == FreeRef(g)
        g2 == New(g, [start |-> t, lastActive |-> t])
    IN  [g |-> SetItem(g2, "CURRENT_SESSION", JSONstringify(g2.heap[r]), ok),
         c |-> [Susp(Enter("startSession"), "set", Outcome(ok)) EXCEPT !.sess = r]]

startSession(g, t, ok) ==
    LET r  == FreeRef(g)
        g1 == New(g, [start |-> t, lastActive |-> t])
        g2 == [g1 EXCEPT !.cache.CURRENT_SESSION = Obj(r)]
    IN  [g |-> SetItem(g2, "CURRENT_SESSION", JSONstringify(g2.heap[r]), ok),
         c |-> [Susp(Enter("startSession"), "set", Outcome(ok)) EXCEPT !.sess = r]]

startSession_resume(g, c, t, ok) ==
    [g |-> g, c |-> IF c.res = Fail THEN Ret(c, Undefined) ELSE Ret(c, Obj(c.sess))]

Touch_Mutant(g, c, r, t, ok) ==
    LET g1 == [g EXCEPT !.heap[r] = [start |-> t, lastActive |-> t],
                        !.cache.CURRENT_SESSION = Obj(r)]
    IN  [g |-> SetItem(g1, "CURRENT_SESSION", JSONstringify(g1.heap[r]), ok),
         c |-> [Susp(c, "set", Outcome(ok)) EXCEPT !.sess = r]]

(* Lines 425-429: session.lastActive = Date.now(); cache it; persist it. *)
Touch(g, c, r, t, ok) ==
    LET g1 == [g EXCEPT !.heap[r].lastActive = t, !.cache.CURRENT_SESSION = Obj(r)]
    IN  [g |-> SetItem(g1, "CURRENT_SESSION", JSONstringify(g1.heap[r]), ok),
         c |-> [Susp(c, "set", Outcome(ok)) EXCEPT !.sess = r]]

updateSessionHeartbeat(g, t, ok) ==
    LET c == Enter("updateSessionHeartbeat")
    IN  IF g.cache.CURRENT_SESSION.t = "obj"
        THEN Touch(g, c, g.cache.CURRENT_SESSION.r, t, ok)
        ELSE [g |-> Read(g, ok), c |-> Susp(c, "get", GetItem(g, "CURRENT_SESSION", ok))]

updateSessionHeartbeat_resume_Mutant(g, c, t, ok) ==
    IF c.pc = "get"
    THEN Touch_Mutant(g, c, FreeRef(g), t, ok)
    ELSE [g |-> g, c |-> IF c.res = Fail THEN Ret(c, Null) ELSE Ret(c, Obj(c.sess))]

updateSessionHeartbeat_resume(g, c, t, ok) ==
    IF c.pc = "get"
    THEN IF c.res.t = "val" /\ JSONwellFormed(c.res.v)
         THEN Touch(New(g, JSONparse(c.res.v)), c, FreeRef(g), t, ok)
         ELSE [g |-> g, c |-> Ret(c, Null)]
    ELSE [g |-> g, c |-> IF c.res = Fail THEN Ret(c, Null) ELSE Ret(c, Obj(c.sess))]

getCurrentSession(g, t, ok) ==
    LET c == Enter("getCurrentSession")
    IN  IF g.cache.CURRENT_SESSION # Undefined
        THEN [g |-> g, c |-> Ret(c, g.cache.CURRENT_SESSION)]
        ELSE [g |-> Read(g, ok), c |-> Susp(c, "get", GetItem(g, "CURRENT_SESSION", ok))]

getCurrentSession_resume(g, c, t, ok) ==
    IF c.res = Fail \/ (c.res.t = "val" /\ ~JSONwellFormed(c.res.v))
    THEN [g |-> g, c |-> Ret(c, Null)]
    ELSE IF c.res = Null
         THEN [g |-> [g EXCEPT !.cache.CURRENT_SESSION = Null], c |-> Ret(c, Null)]
         ELSE LET r == FreeRef(g)
                  g1 == New(g, JSONparse(c.res.v))
              IN  [g |-> [g1 EXCEPT !.cache.CURRENT_SESSION = Obj(r)], c |-> Ret(c, Obj(r))]

----------------------------------------------------------------------------
(* History and session details.  A map is a function from day keys.        *)
EmptyMap == << >>
Lookup(m, k, default) == IF k \in DOMAIN m THEN m[k] ELSE default
Put(m, k, v) == [d \in DOMAIN m \cup {k} |-> IF d = k THEN v ELSE m[d]]

addToHistory_Mutant(history, timestamp, durationMs) ==
    Put(EmptyMap, DayKey(timestamp), Lookup(history, DayKey(timestamp), 0) + durationMs)

(* addToHistory, lines 511-516: the map to persist. *)
addToHistory(history, timestamp, durationMs) ==
    LET dateKey == DayKey(timestamp)
        currentTotal == Lookup(history, dateKey, 0)
    IN  Put(history, dateKey, currentTotal + durationMs)

addSessionDetail_Mutant(allSessions, startTime, endTime) ==
    Put(EmptyMap, DayKey(startTime),
        Append(Lookup(allSessions, DayKey(startTime), << >>),
               [start |-> startTime, end |-> endTime, duration |-> endTime - startTime]))

(* addSessionDetail, lines 552-564: the map to persist. *)
addSessionDetail(allSessions, startTime, endTime) ==
    LET dateKey == DayKey(startTime)
    IN  Put(allSessions, dateKey,
            Append(Lookup(allSessions, dateKey, << >>),
                   [start |-> startTime, end |-> endTime, duration |-> endTime - startTime]))

LeafKey(leaf) == IF leaf = "hist" THEN "HISTORY" ELSE "SESSIONS"

----------------------------------------------------------------------------
(* endSession.  Its awaited calls of addToHistory and addSessionDetail are *)
(* the segments "A" (start day), "B" (end day) and "S" (same day), each    *)
(* with the leaves "hist" and "det"; a leaf suspends at its getItem        *)
(* ("leaf_get") and at its setItem ("leaf_set").                           *)

LeafArgs_Mutant(g, c, seg, leaf) ==
    LET session  == g.heap[c.sess]
        midnight == EndOfDay(session.start)
        startOfNewDay == midnight
    IN  CASE seg = "A" /\ leaf = "hist" -> <<session.start, midnight - session.start>>
          [] seg = "A" /\ leaf = "det"  -> <<session.start, midnight>>
          [] seg = "B" /\ leaf = "hist" -> <<c.t0, c.t0 - startOfNewDay>>
          [] seg = "B" /\ leaf = "det"  -> <<startOfNewDay, c.t0>>
          [] seg = "S" /\ leaf = "hist" -> <<session.start, session.lastActive - session.start>>
          [] seg = "S" /\ leaf = "det"  -> <<session.start, session.lastActive>>

(* The arguments of a leaf call, evaluated when the call is made. *)
LeafArgs(g, c, seg, leaf) ==
    LET session  == g.heap[c.sess]
        midnight == EndOfDay(session.start)
        startOfNewDay == midnight + 1
    IN  CASE seg = "A" /\ leaf = "hist" -> <<session.start, midnight - session.start>>
          [] seg = "A" /\ leaf = "det"  -> <<session.start, midnight>>
          [] seg = "B" /\ leaf = "hist" -> <<c.t0, c.t0 - startOfNewDay>>
          [] seg = "B" /\ leaf = "det"  -> <<startOfNewDay, c.t0>>
          [] seg = "S" /\ leaf = "hist" -> <<session.start, session.lastActive - session.start>>
          [] seg = "S" /\ leaf = "det"  -> <<session.start, session.lastActive>>

(* A leaf is called: it runs to its getItem. *)
CallLeaf(g, c, seg, leaf, ok) ==
    [g |-> Read(g, ok),
     c |-> [Susp(c, "leaf_get", GetItem(g, LeafKey(leaf), ok))
               EXCEPT !.seg = seg, !.leaf = leaf, !.arg = LeafArgs(g, c, seg, leaf)]]

(* Lines 486-487: the live session is cleared. *)
ClearSession(g, c, ok) ==
    LET g1 == [g EXCEPT !.cache.CURRENT_SESSION = Null]
    IN  [g |-> RemoveItem(g1, "CURRENT_SESSION", ok), c |-> Susp(c, "rm", Outcome(ok))]

(* Lines 466-474: segment B, after segment A. *)
SegmentB(g, c, ok) ==
    LET startOfNewDay == EndOfDay(g.heap[c.sess].start) + 1
        duration2 == c.t0 - startOfNewDay
    IN  IF duration2 >= MinSessionMs
        THEN CallLeaf(g, c, "B", "hist", ok)
        ELSE ClearSession(g, c, ok)

(* A leaf has returned (its own try/catch swallows every failure). *)
AfterLeaf(g, c, ok) ==
    CASE c.leaf = "hist" -> CallLeaf(g, c, c.seg, "det", ok)
      [] c.leaf = "det" /\ c.seg = "A" -> SegmentB(g, c, ok)
      [] OTHER -> ClearSession(g, c, ok)

(* Ghost: the segments of at least MinSessionMs that lines 455-484 record  *)
(* for a session [start, t].                                               *)
Segment(s, e) == [day |-> DayKey(s), start |-> s, end |-> e, duration |-> e - s]
SegmentsOf(start, t) ==
    LET midnight == EndOfDay(start)
        all == IF DayKey(start) # DayKey(t)
               THEN <<Segment(start, midnight), Segment(midnight + 1, t)>>
               ELSE <<Segment(start, t)>>
    IN  SelectSeq(all, LAMBDA x : x.duration >= MinSessionMs)

ProcessSession_Mutant(g, c0, r, t, ok) ==
    LET c  == [c0 EXCEPT !.sess = r, !.t0 = t]
        session  == g.heap[r]
        midnight == EndOfDay(session.start)
    IN  IF DayKey(session.start) # DayKey(t)
        THEN IF midnight - session.start >= MinSessionMs
             THEN CallLeaf(g, c, "A", "hist", ok)
             ELSE SegmentB(g, c, ok)
        ELSE IF t - session.start >= MinSessionMs
             THEN CallLeaf(g, c, "S", "hist", ok)
             ELSE ClearSession(g, c, ok)

(* Lines 448-484, from `if (session)` to the first await. *)
ProcessSession(g, c0, r, t, ok) ==
    LET g1 == [g EXCEPT !.heap[r].lastActive = t,
                        !.finalized = IF g.observe.segments
                                      THEN @ \o SegmentsOf(g.heap[r].start, t)
                                      ELSE @]
        c  == [c0 EXCEPT !.sess = r, !.t0 = t]
        session  == g1.heap[r]
        startDay == DayKey(session.start)
        endDay   == DayKey(t)
        midnight == EndOfDay(session.start)
        duration1 == midnight - session.start
        duration  == session.lastActive - session.start
    IN  IF startDay # endDay
        THEN IF duration1 >= MinSessionMs
             THEN CallLeaf(g1, c, "A", "hist", ok)
             ELSE SegmentB(g1, c, ok)
        ELSE IF duration >= MinSessionMs
             THEN CallLeaf(g1, c, "S", "hist", ok)
             ELSE ClearSession(g1, c, ok)

Finally_Mutant(g, c) ==
    [g |-> IF c.pc = "rm" /\ c.res # Fail THEN [g EXCEPT !.isEnding = FALSE] ELSE g,
     c |-> Ret(c, Undefined)]

(* Lines 491-493. *)
Finally(g, c) == [g |-> [g EXCEPT !.isEnding = FALSE], c |-> Ret(c, Undefined)]

(* A call dropped by the reentrancy guard, line 438. *)
Dropped(c) == [Ret(c, Undefined) EXCEPT !.pc = "dropped"]

endSession_Mutant(g, t, ok) ==
    LET c  == Enter("endSession")
        g1 == [g EXCEPT !.isEnding = TRUE]
    IN  IF g.cache.CURRENT_SESSION.t = "obj"
        THEN ProcessSession(g1, c, g.cache.CURRENT_SESSION.r, t, ok)
        ELSE [g |-> Read(g1, ok),
              c |-> Susp(c, "get", GetItem(g, "CURRENT_SESSION", ok))]

endSession(g, t, ok) ==
    LET c  == Enter("endSession")
        g1 == [g EXCEPT !.isEnding = TRUE]
    IN  IF g.isEnding
        THEN [g |-> g, c |-> Dropped(c)]
        ELSE IF g.cache.CURRENT_SESSION.t = "obj"
             THEN ProcessSession(g1, c, g.cache.CURRENT_SESSION.r, t, ok)
             ELSE [g |-> Read(g1, ok),
                   c |-> Susp(c, "get", GetItem(g, "CURRENT_SESSION", ok))]

endSession_resume(g, c, t, ok) ==
    CASE c.pc = "get" ->
            IF c.res.t = "val" /\ JSONwellFormed(c.res.v)
            THEN ProcessSession(New(g, JSONparse(c.res.v)), c, FreeRef(g), t, ok)
            ELSE Finally(g, c)
      [] c.pc = "leaf_get" ->
            IF c.res = Fail \/ (c.res.t = "val" /\ ~JSONwellFormed(c.res.v))
            THEN AfterLeaf(g, c, ok)
            ELSE LET m == IF c.res = Null THEN EmptyMap ELSE JSONparse(c.res.v)
                     m1 == IF c.leaf = "hist"
                           THEN addToHistory(m, c.arg[1], c.arg[2])
                           ELSE addSessionDetail(m, c.arg[1], c.arg[2])
                 IN  [g |-> SetItem(g, LeafKey(c.leaf), JSONstringify(m1), ok),
                      c |-> Susp(c, "leaf_set", Outcome(ok))]
      [] c.pc = "leaf_set" -> AfterLeaf(g, c, ok)
      [] c.pc = "rm" -> Finally(g, c)

----------------------------------------------------------------------------
(* Callers.  A caller is idle, or runs a handler h at label pc with one    *)
(* StorageService call in flight.  `pre` and `last` are ghosts: what the   *)
(* caller saw when it made its call, and what its previous call returned.  *)

NoLast == [of |-> "none", val |-> Undefined, err |-> "", arg |-> Undefined, slot |-> Undefined]
NoPre == [t |-> 0, session |-> Undefined, stored |-> Null, history |-> Null,
          sessions |-> Null, slot |-> Undefined, arg |-> Undefined]
AllFns == {"setTargetSSID", "getTargetSSID", "getRawSSID", "clearTargetSSID",
           "getGoalHours", "setGoalHours", "getManualPause", "setManualPause",
           "startSession", "updateSessionHeartbeat", "endSession", "getCurrentSession"}
Observe(frames, pre, last, segments) ==
    [frames |-> frames, pre |-> pre, last |-> last, segments |-> segments, ticks |-> FALSE]
WithTicks(o) == [o EXCEPT !.ticks = TRUE]
IdleProc == [h |-> "idle", pc |-> "", call |-> NoCall, last |-> NoLast, pre |-> NoPre,
             isWifi |-> FALSE, storedTarget |-> Null, storedSSID |-> Null,
             isPaused |-> FALSE, session |-> Null, onTarget |-> FALSE, off |-> FALSE,
             began |-> "none", cleared |-> FALSE]

ValRefs(v) == IF v.t = "obj" THEN {v.r} ELSE {}
ProcRefs(x) == ({x.call.sess} \ {0}) \cup ValRefs(x.call.val) \cup ValRefs(x.last.val)
                  \cup ValRefs(x.session)
LiveRefs(ch, prs) == ValRefs(ch.CURRENT_SESSION) \cup UNION {ProcRefs(prs[p]) : p \in Procs}

(* Session objects nobody refers to any more are collected. *)
Collect(h, ch, prs) == [r \in Refs |-> IF r \in LiveRefs(ch, prs) THEN h[r] ELSE Free]

(* The state after caller p has run to its next await: r is the engine     *)
(* state and the frame of its call, x the rest of p's record.              *)
Apply(p, r, x) ==
    LET c   == IF r.c.fn = "ret" /\ ~observe.frames
               THEN [r.c EXCEPT !.sess = 0, !.t0 = 0, !.err = "", !.reads = 0]
               ELSE r.c
        begun == (IF r.c.fn = "ret" THEN r.c.of ELSE r.c.fn) = "endSession"
                 /\ proc[p].call.fn # "endSession"
        prs == [q \in Procs |->
                  LET y == IF q = p THEN [x EXCEPT !.call = c] ELSE proc[q]
                  IN  IF begun THEN [y EXCEPT !.cleared = FALSE] ELSE y]
    IN  /\ proc' = prs
        /\ cache' = r.g.cache
        /\ store' = r.g.store
        /\ isEnding' = r.g.isEnding
        /\ fails' = r.g.fails
        /\ finalized' = r.g.finalized
        /\ heap' = Collect(r.g.heap, r.g.cache, prs)

Oks == IF fails > 0 THEN BOOLEAN ELSE {TRUE}

(* The readers of the ledger, lines 524-542 and 572-602: each reads its    *)
(* map and answers from it; arg is the day key.  A rejected read and a     *)
(* text JSON.parse throws on are caught and give the default.              *)
ReadMap(g, fn, key, dateKey, ok) ==
    [g |-> Read(g, ok),
     c |-> [Susp(Enter(fn), "get", GetItem(g, key, ok)) EXCEPT !.arg = dateKey]]
getHistory(g, t, ok) == ReadMap(g, "getHistory", "HISTORY", Undefined, ok)
getTodayDuration(g, t, ok) == ReadMap(g, "getTodayDuration", "HISTORY", DayKey(t), ok)
getDurationForDate(g, dateKey, ok) == ReadMap(g, "getDurationForDate", "HISTORY", dateKey, ok)
getTodaySessions(g, t, ok) == ReadMap(g, "getTodaySessions", "SESSIONS", DayKey(t), ok)
getSessionsForDate(g, dateKey, ok) == ReadMap(g, "getSessionsForDate", "SESSIONS", dateKey, ok)
Readers == {"getHistory", "getTodayDuration", "getDurationForDate",
            "getTodaySessions", "getSessionsForDate"}
ReadMap_Mutant(g, c, t, ok) ==
    IF c.res = Fail THEN [g |-> g, c |-> Ret(c, Undefined)]
    ELSE [g |-> g, c |-> Ret(c, IF c.res = Null THEN Null
                                ELSE Val(Lookup(JSONparse(c.res.v), c.arg, 0)))]
ReadMap_resume(g, c, t, ok) ==
    LET default == CASE c.fn = "getHistory" -> EmptyMap
                     [] c.fn \in {"getTodayDuration", "getDurationForDate"} -> 0
                     [] OTHER -> << >>
    IN  IF c.res = Fail \/ (c.res.t = "val" /\ ~JSONwellFormed(c.res.v))
        THEN [g |-> g, c |-> Ret(c, Val(default))]
        ELSE LET map == IF c.res = Null THEN EmptyMap ELSE JSONparse(c.res.v)
             IN  [g |-> g,
                  c |-> Ret(c, Val(IF c.fn = "getHistory" THEN map
                                   ELSE Lookup(map, c.arg, default)))]

(* clearHistory, lines 544-547: no try/catch, a rejected removal is thrown  *)
(* to the caller.                                                          *)
Thrown == [t |-> "thrown"]
clearHistory(g, t, ok) ==
    [g |-> RemoveItem(g, "HISTORY", ok),
     c |-> Susp(Enter("clearHistory"), "rm1", Outcome(ok))]
clearHistory_resume(g, c, t, ok) ==
    CASE c.res = Fail -> [g |-> g, c |-> Ret(c, Thrown)]
      [] c.pc = "rm1" -> [g |-> RemoveItem(g, "SESSIONS", ok), c |-> Susp(c, "rm2", Outcome(ok))]
      [] OTHER -> [g |-> g, c |-> Ret(c, Undefined)]

Pending(c) == c.fn \notin {"none", "ret"}
FnOf(c) == IF c.fn = "ret" THEN c.of ELSE c.fn

(* The resumption of the StorageService call c. *)
Resume(g, c, t, ok) ==
    CASE c.fn = "startSession" -> startSession_resume(g, c, t, ok)
      [] c.fn = "updateSessionHeartbeat" -> updateSessionHeartbeat_resume(g, c, t, ok)
      [] c.fn = "getCurrentSession" -> getCurrentSession_resume(g, c, t, ok)
      [] c.fn = "endSession" -> endSession_resume(g, c, t, ok)
      [] c.fn \in {"getTargetSSID", "getRawSSID"} -> GetSlot_resume(g, c, t, ok)
      [] c.fn = "setTargetSSID" -> setTargetSSID_resume(g, c, t, ok)
      [] c.fn = "clearTargetSSID" -> ClearBoth_resume(g, c, t, ok)
      [] c.fn = "getGoalHours" -> getGoalHours_resume(g, c, t, ok)
      [] c.fn = "getManualPause" -> getManualPause_resume(g, c, t, ok)
      [] c.fn \in {"setGoalHours", "setManualPause"} -> Setter_resume(g, c, t, ok)
      [] c.fn \in Readers -> ReadMap_resume(g, c, t, ok)
      [] c.fn = "clearHistory" -> clearHistory_resume(g, c, t, ok)

(* What a caller sees when it makes a call. *)
Snapshot(arg, slot) ==
    [t |-> now, session |-> IF cache.CURRENT_SESSION.t = "obj"
                            THEN Val(heap[cache.CURRENT_SESSION.r])
                            ELSE cache.CURRENT_SESSION,
     stored |-> store.CURRENT_SESSION, history |-> store.HISTORY,
     sessions |-> store.SESSIONS, slot |-> slot, arg |-> arg]

----------------------------------------------------------------------------
(* A client of the StorageService interface: it calls one function at a    *)
(* time and awaits it.                                                     *)
ApiCallOn(p, r, arg, slot) ==
    /\ proc[p].h = "idle"
    /\ Apply(p, r, [proc[p] EXCEPT !.h = "api",
                                    !.pre = IF FnOf(r.c) \in observe.pre
                                            THEN Snapshot(arg, slot) ELSE NoPre])
    /\ UNCHANGED <<now, net, advances, observe>>

ApiCall(p, r) == ApiCallOn(p, r, Undefined, Undefined)

CallStartSession(p) == \E ok \in Oks : ApiCall(p, startSession(G, now, ok))
CallHeartbeat(p) == \E ok \in Oks : ApiCall(p, updateSessionHeartbeat(G, now, ok))
CallEndSession(p) == \E ok \in Oks : ApiCall(p, endSession(G, now, ok))
CallGetCurrentSession(p) == \E ok \in Oks : ApiCall(p, getCurrentSession(G, now, ok))

(* The names and raw SSIDs a caller passes: "q" is the double quote. *)
Names == {Val(<< >>), Val(<<"w">>)}
RawSSIDs == {Null, Val(<< >>), Val(<<"q", "c", "q">>), Val(<<"q", "q", "d">>)}
GoalInputs == {80}

CallSetTargetSSID(p) ==
    \E ok \in Oks, name \in Names, rawSSID \in RawSSIDs :
        ApiCallOn(p, setTargetSSID(G, name, rawSSID, ok),
                  [name |-> name, rawSSID |-> rawSSID], cache.RAW_SSID)
CallClearTargetSSID(p) == \E ok \in Oks : ApiCall(p, clearTargetSSID(G, now, ok))
CallGetTargetSSID(p) ==
    \E ok \in Oks : ApiCallOn(p, getTargetSSID(G, now, ok), Undefined, cache.TARGET_SSID)
CallGetRawSSID(p) ==
    \E ok \in Oks : ApiCallOn(p, getRawSSID(G, now, ok), Undefined, cache.RAW_SSID)
CallGetGoalHours(p) ==
    \E ok \in Oks : ApiCallOn(p, getGoalHours(G, now, ok), Undefined, cache.GOAL_HOURS)
CallSetGoalHours(p) ==
    \E ok \in Oks, hours \in GoalInputs :
        ApiCallOn(p, setGoalHours(G, hours, ok), [hours |-> hours], cache.GOAL_HOURS)
CallGetManualPause(p) ==
    \E ok \in Oks : ApiCallOn(p, getManualPause(G, now, ok), Undefined, cache.IS_MANUAL_PAUSED)
CallSetManualPause(p) ==
    \E ok \in Oks, isPaused \in BOOLEAN :
        ApiCallOn(p, setManualPause(G, isPaused, ok), [isPaused |-> isPaused],
                  cache.IS_MANUAL_PAUSED)

(* The call in flight resumes after its await. *)
ApiResume(p) ==
    /\ proc[p].h # "idle"
    /\ Pending(proc[p].call)
    /\ \E ok \in Oks : Apply(p, Resume(G, proc[p].call, now, ok), proc[p])
    /\ UNCHANGED <<now, net, advances, observe>>

(* The client's await of the call completes. *)
ApiReturn(p) ==
    /\ proc[p].h = "api"
    /\ proc[p].call.fn = "ret"
    /\ Apply(p, [g |-> G, c |-> NoCall],
             [proc[p] EXCEPT !.h = "idle", !.pre = NoPre,
                             !.last = IF proc[p].call.of \in observe.last
                                      THEN [of |-> proc[p].call.of, val |-> proc[p].call.val,
                                            err |-> proc[p].call.err,
                                            arg |-> proc[p].pre.arg, slot |-> proc[p].pre.slot]
                                      ELSE NoLast])
    /\ UNCHANGED <<now, net, advances, observe>>

(* Time passes. *)
Advance(deltas, max) ==
    /\ advances < max
    /\ \E d \in deltas : now' = now + d
    /\ advances' = advances + 1
    /\ UNCHANGED <<cache, store, heap, isEnding, proc, net, fails, finalized, observe>>

(* The app is restarted: the module is loaded afresh, the store persists. *)
EmptyCache == [TARGET_SSID |-> Undefined, RAW_SSID |-> Undefined, GOAL_HOURS |-> Undefined,
               IS_MANUAL_PAUSED |-> Undefined, CURRENT_SESSION |-> Undefined]
Restart ==
    /\ \A p \in Procs : proc[p].h = "idle"
    /\ cache # EmptyCache
    /\ cache' = EmptyCache
    /\ isEnding' = FALSE
    /\ proc' = [p \in Procs |-> IdleProc]
    /\ heap' = [r \in Refs |-> Free]
    /\ UNCHANGED <<now, store, net, fails, advances, finalized, observe>>

EmptyStore == [TARGET_SSID |-> Null, RAW_SSID |-> Null, GOAL_HOURS |-> Null,
               IS_MANUAL_PAUSED |-> Null, CURRENT_SESSION |-> Null,
               HISTORY |-> Null, SESSIONS |-> Null]
(* What NetInfo.fetch() and Platform.OS give: ok is whether the fetch      *)
(* resolves, type and isConnected are the state's, ssid is details.ssid as  *)
(* far as the platform and the location services let it be read (null       *)
(* otherwise), os is Platform.OS.                                           *)
PlatformOS == "android"
NoNet == [ok |-> TRUE, type |-> "none", isConnected |-> FALSE, ssid |-> Null,
          os |-> PlatformOS]
Wifi(ssid) == [ok |-> TRUE, type |-> "wifi", isConnected |-> TRUE, ssid |-> ssid,
               os |-> PlatformOS]

(* The ledger's clock starts 1001 ms before a local midnight, and a        *)
(* session may have been left live by an earlier run of the app.           *)
LedgerT0 == MsPerDay - 1001
SeqDeltas == {999, 1000}
LedgerDeltas == {1000}
PersistedSessions == {Null, Val(JSONstringify([start |-> LedgerT0, lastActive |-> LedgerT0]))}

InitLedger(obs, nfails) ==
    /\ observe = obs
    /\ fails = nfails
    /\ now = LedgerT0
    /\ cache = EmptyCache
    /\ \E s \in PersistedSessions : store = [EmptyStore EXCEPT !.CURRENT_SESSION = s]
    /\ heap = [r \in Refs |-> Free]
    /\ isEnding = FALSE
    /\ proc = [p \in Procs |-> IdleProc]
    /\ net = NoNet
    /\ advances = 0
    /\ finalized = << >>

(* One client, one call at a time. *)
LedgerClient(p) ==
    \/ CallStartSession(p)
    \/ CallHeartbeat(p)
    \/ CallEndSession(p)
    \/ CallGetCurrentSession(p)
    \/ ApiResume(p)
    \/ ApiReturn(p)

InitSeq == InitLedger(Observe(TRUE, AllFns, {"startSession"}, FALSE), 0)
NextSeq == LedgerClient("ui") \/ Advance(SeqDeltas, MaxAdvances)
SpecSeq == InitSeq /\ [][NextSeq]_vars

(* One client, with store operations that may fail and restarts of the    *)
(* app; the segments that endSession sets out to record are remembered.    *)
InitFaulty == InitLedger(Observe(FALSE, {}, {}, TRUE), MaxFails)
NextFaulty == LedgerClient("ui") \/ Advance(SeqDeltas, MaxAdvances) \/ Restart
SpecFaulty == InitFaulty /\ [][NextFaulty]_vars

(* Two clients whose calls overlap. *)
LedgerClients == {"ui", "timer"}
NextLedger == (\E p \in LedgerClients : LedgerClient(p)) \/ Advance(LedgerDeltas, MaxConcAdvances)
InitConc == InitLedger(Observe(FALSE, {}, {}, FALSE), 0)
SpecLedger == InitConc /\ [][NextLedger]_vars

(* One client whose sessions stay live over one midnight or over two: the  *)
(* app is suspended for a day or for two days between its calls.           *)
SpanDeltas == {MsPerDay, 2 * MsPerDay}
InitSpan == InitLedger(Observe(TRUE, AllFns, {}, FALSE), 0)
NextSpan == LedgerClient("ui") \/ Advance(SpanDeltas, MaxAppAdvances)
SpecSpan == InitSpan /\ [][NextSpan]_vars

(* Two clients that start and end sessions while store operations may      *)
(* fail; the text under CURRENT_SESSION may be one JSON.parse throws on.    *)
UnparsableText == [wf |-> FALSE, v |-> [start |-> 0, lastActive |-> 0]]
GuardClient(p) ==
    \/ CallStartSession(p)
    \/ CallEndSession(p)
    \/ ApiResume(p)
    \/ ApiReturn(p)
InitGuard ==
    /\ observe = Observe(TRUE, {}, {}, FALSE)
    /\ fails = MaxFails
    /\ now = LedgerT0
    /\ cache = EmptyCache
    /\ \E s \in PersistedSessions \cup {Val(UnparsableText)} :
           store = [EmptyStore EXCEPT !.CURRENT_SESSION = s]
    /\ heap = [r \in Refs |-> Free]
    /\ isEnding = FALSE
    /\ proc = [p \in Procs |-> IdleProc]
    /\ net = NoNet
    /\ advances = 0
    /\ finalized = << >>
NextGuard == (\E p \in LedgerClients : GuardClient(p)) \/ Advance(LedgerDeltas, MaxAppAdvances)
SpecGuard == InitGuard /\ [][NextGuard]_vars

(* A client of the ledger: it ends sessions, reads the ledger for today    *)
(* and for the next day, and clears it; store operations may fail.         *)
DateKeys == {DayKey(LedgerT0), DayKey(LedgerT0) + 1}
CallReader(p) ==
    \E ok \in Oks :
        \/ ApiCall(p, getHistory(G, now, ok))
        \/ ApiCallOn(p, getTodayDuration(G, now, ok), DayKey(now), Undefined)
        \/ ApiCallOn(p, getTodaySessions(G, now, ok), DayKey(now), Undefined)
        \/ \E dateKey \in DateKeys :
              \/ ApiCallOn(p, getDurationForDate(G, dateKey, ok), dateKey, Undefined)
              \/ ApiCallOn(p, getSessionsForDate(G, dateKey, ok), dateKey, Undefined)
CallClearHistory(p) == \E ok \in Oks : ApiCall(p, clearHistory(G, now, ok))
HistClient(p) ==
    \/ CallStartSession(p)
    \/ CallEndSession(p)
    \/ CallReader(p)
    \/ CallClearHistory(p)
    \/ ApiResume(p)
    \/ ApiReturn(p)
(* What earlier days left in the store: nothing, or a ledger without the   *)
(* days asked for.                                                         *)
PersistedLedgers ==
    {EmptyStore,
     [EmptyStore EXCEPT
        !.HISTORY = Val(JSONstringify(Put(EmptyMap, DayKey(LedgerT0) - 1, 5000))),
        !.SESSIONS = Val(JSONstringify(Put(EmptyMap, DayKey(LedgerT0) - 1,
                         <<[start |-> LedgerT0 - MsPerDay, end |-> LedgerT0 - MsPerDay + 5000,
                            duration |-> 5000]>>)))]}
InitHist ==
    /\ observe = Observe(TRUE, AllFns \cup Readers \cup {"clearHistory"}, {}, FALSE)
    /\ fails = MaxFails
    /\ now = LedgerT0
    /\ cache = EmptyCache
    /\ \E s \in PersistedSessions, ledger \in PersistedLedgers :
           store = [ledger EXCEPT !.CURRENT_SESSION = s]
    /\ heap = [r \in Refs |-> Free]
    /\ isEnding = FALSE
    /\ proc = [p \in Procs |-> IdleProc]
    /\ net = NoNet
    /\ advances = 0
    /\ finalized = << >>
NextHist == HistClient("ui") \/ Advance(LedgerDeltas, MaxAppAdvances)
SpecHist == InitHist /\ [][NextHist]_vars

(* The configuration as one client uses it, across restarts of the app,    *)
(* with store operations that may fail.                                    *)
PersistedConfig ==
    [EmptyStore EXCEPT !.TARGET_SSID = Val(<<"h">>), !.RAW_SSID = Val(<<"e">>),
                       !.GOAL_HOURS = Val(NumberToString(70)),
                       !.IS_MANUAL_PAUSED = Val("true")]

InitConfig(obs, configs) ==
    /\ observe = obs
    /\ fails = MaxFails
    /\ now = LedgerT0
    /\ cache = EmptyCache
    /\ \E s \in PersistedSessions, cfg \in configs :
           store = [cfg EXCEPT !.CURRENT_SESSION = s]
    /\ heap = [r \in Refs |-> Free]
    /\ isEnding = FALSE
    /\ proc = [p \in Procs |-> IdleProc]
    /\ net = NoNet
    /\ advances = 0
    /\ finalized = << >>

(* A client that sets and clears the target network and reads every slot. *)
SsidClient(p) ==
    \/ CallSetTargetSSID(p)
    \/ CallClearTargetSSID(p)
    \/ CallGetTargetSSID(p)
    \/ CallGetRawSSID(p)
    \/ CallGetGoalHours(p)
    \/ CallGetManualPause(p)
    \/ CallGetCurrentSession(p)
    \/ ApiResume(p)
    \/ ApiReturn(p)

InitSsid == InitConfig(Observe(TRUE, AllFns, {"setTargetSSID"}, FALSE), {PersistedConfig})
NextSsid == SsidClient("ui") \/ Restart
SpecSsid == InitSsid /\ [][NextSsid]_vars

(* A client of the whole configuration interface. *)
CfgClient(p) ==
    \/ SsidClient(p)
    \/ CallSetGoalHours(p)
    \/ CallSetManualPause(p)

InitCfg == InitConfig(Observe(TRUE, AllFns, {}, FALSE), {EmptyStore, PersistedConfig})
NextCfg == CfgClient("ui") \/ Restart
SpecCfg == InitCfg /\ [][NextCfg]_vars

----------------------------------------------------------------------------
(* NetworkService over the state NetInfo reports: wifi is                  *)
(* type === 'wifi' && isConnected, ssid is details.ssid as the platform    *)
(* gives it (possibly quoted) or null when it is not available.            *)
isConnectedToWifi_Mutant(n) == n.ok /\ n.type = "wifi"
isConnectedToWifi(n) == IF ~n.ok THEN FALSE ELSE n.type = "wifi" /\ n.isConnected
getCurrentSSID_Mutant(n) ==
    IF n.ok /\ n.type = "wifi" /\ ~Falsy(n.ssid) /\ n.os \in {"android", "ios"}
    THEN n.ssid
    ELSE Null
getCurrentSSID(n) ==
    IF n.ok /\ n.type = "wifi" /\ ~Falsy(n.ssid) /\ n.os \in {"android", "ios"}
    THEN Val(StripQuotes(n.ssid.v))
    ELSE Null
isConnectedToTargetNetwork(n, targetSSID) ==
    IF ~n.ok \/ n.type # "wifi" \/ ~n.isConnected \/ Falsy(targetSSID)
    THEN FALSE
    ELSE LET currentSSID == getCurrentSSID(n)
         IN  CASE n.os = "android" ->
                    IF Falsy(currentSSID) THEN FALSE ELSE currentSSID = targetSSID
               [] n.os = "ios" ->
                    IF ~Falsy(currentSSID) THEN currentSSID = targetSSID ELSE TRUE
               [] OTHER -> FALSE

(* A step of a handler of caller p: r is the StorageService call it makes  *)
(* (or NoCall with the engine state unchanged), x the caller's new record. *)
Quiet == [g |-> G, c |-> NoCall]
HandlerStep(p, r, x) ==
    /\ Apply(p, r, [x EXCEPT !.pre = IF FnOf(r.c) \in observe.pre
                                      THEN Snapshot(Undefined, Undefined) ELSE NoPre])
    /\ UNCHANGED <<now, net, advances, observe>>
At(p, h, pc) == proc[p].h = h /\ proc[p].pc = pc
Back(p, h, pc) == At(p, h, pc) /\ proc[p].call.fn = "ret"
(* Ghost `off`: the device has been off Wi-Fi since this invocation began   *)
(* (for an idle caller: throughout its last invocation and ever since).    *)
Done(p) ==
    HandlerStep(p, Quiet, [IdleProc EXCEPT !.off = proc[p].off, !.cleared = proc[p].cleared])
Truthy(x) == ~Falsy(x)

(* What the decision table is about, as it stands in the store and the    *)
(* network: a session is live; the device is on the target network (on     *)
(* Wi-Fi and, when a raw SSID is stored, matching it), a target is         *)
(* configured and the manual pause is off.                                 *)
LiveNow == store.CURRENT_SESSION # Null
MatchNow ==
    isConnectedToWifi(net) /\ (Falsy(store.RAW_SSID) \/ isConnectedToTargetNetwork(net, store.RAW_SSID))
ShouldTrackNow ==
    MatchNow /\ Truthy(store.TARGET_SSID) /\ store.IS_MANUAL_PAUSED # Val("true")
(* Ghost `began`: what held when the invocation began, "none" once the     *)
(* network has changed since.                                              *)
Situation ==
    CASE LiveNow /\ ~ShouldTrackNow -> "stop"
      [] ~LiveNow /\ ShouldTrackNow -> "start"
      [] LiveNow /\ ShouldTrackNow -> "keep"
      [] OTHER -> "rest"

(* checkNetworkAndSession, App.js 200-326; the timer (line 137) and the    *)
(* app-foreground listener (140-152) invoke it.                            *)
Tick(p) ==
    /\ proc[p].h = "idle"
    /\ HandlerStep(p, Quiet, [proc[p] EXCEPT !.h = "check", !.pc = "wifi",
                                              !.off = observe.ticks /\ ~isConnectedToWifi(net),
                                              !.began = IF observe.ticks THEN Situation
                                                        ELSE "none"])

CheckWifi(p) ==
    /\ At(p, "check", "wifi")
    /\ \E ok \in Oks :
         HandlerStep(p, getTargetSSID(G, now, ok),
                     [proc[p] EXCEPT !.isWifi = isConnectedToWifi(net), !.pc = "target"])

CheckTarget(p) ==
    /\ Back(p, "check", "target")
    /\ \E ok \in Oks :
         HandlerStep(p, getRawSSID(G, now, ok),
                     [proc[p] EXCEPT !.storedTarget = proc[p].call.val, !.pc = "raw"])

CheckRaw(p) ==
    /\ Back(p, "check", "raw")
    /\ \E ok \in Oks :
         HandlerStep(p, getManualPause(G, now, ok),
                     [proc[p] EXCEPT !.storedSSID = proc[p].call.val, !.pc = "pause"])

(* Lines 215-224: the pause is read, and reset when the device is off Wi-Fi. *)
CheckPause(p) ==
    /\ Back(p, "check", "pause")
    /\ LET isPaused == proc[p].call.val.v
       IN  \E ok \in Oks :
             IF ~proc[p].isWifi /\ isPaused
             THEN HandlerStep(p, setManualPause(G, FALSE, ok),
                              [proc[p] EXCEPT !.isPaused = isPaused, !.pc = "unpause"])
             ELSE HandlerStep(p, getCurrentSession(G, now, ok),
                              [proc[p] EXCEPT !.isPaused = isPaused, !.pc = "session"])

CheckUnpause(p) ==
    /\ Back(p, "check", "unpause")
    /\ \E ok \in Oks :
         HandlerStep(p, getCurrentSession(G, now, ok),
                     [proc[p] EXCEPT !.isPaused = FALSE, !.pc = "session"])

(* Line 263, from what the invocation has read (the caller's record x). *)
shouldBeTracking_NoPause(x) == x.onTarget /\ Truthy(x.storedTarget)
shouldBeTracking_Strict(x) ==
    x.onTarget /\ Truthy(x.storedTarget) /\ ~x.isPaused /\ Truthy(x.storedSSID)
shouldBeTracking(x) == x.onTarget /\ Truthy(x.storedTarget) /\ ~x.isPaused

(* Lines 262-309, the decision, with the caller's record x holding what    *)
(* the invocation has read.                                                *)
Decide(p, x, ok) ==
    LET session == heap[x.session.r]
    IN  CASE Truthy(x.session) /\ ~shouldBeTracking(x) ->
                HandlerStep(p, endSession(G, now, ok), [x EXCEPT !.pc = "stop"])
          [] shouldBeTracking(x) /\ ~Truthy(x.session) ->
                HandlerStep(p, startSession(G, now, ok), [x EXCEPT !.pc = "start"])
          [] shouldBeTracking(x) /\ Truthy(x.session) ->
                IF DayKey(session.start) # DayKey(now)
                THEN HandlerStep(p, endSession(G, now, ok), [x EXCEPT !.pc = "rollEnd"])
                ELSE IF now - session.lastActive > HeartbeatMs
                THEN HandlerStep(p, updateSessionHeartbeat(G, now, ok), [x EXCEPT !.pc = "beat"])
                ELSE Done(p)
          [] OTHER -> Done(p)

(* Lines 224-260: the session is read; a stale one is ended (226-240);     *)
(* otherwise the network is matched, with the oracle when a raw SSID is    *)
(* stored.                                                                 *)
CheckSession(p) ==
    /\ Back(p, "check", "session")
    /\ LET session == proc[p].call.val
           x == [proc[p] EXCEPT !.session = session]
       IN  \E ok \in Oks :
             IF Truthy(session) /\ now - heap[session.r].lastActive > ZombieMs
             THEN HandlerStep(p, endSession(G, now, ok), [x EXCEPT !.pc = "zombie"])
             ELSE IF x.isWifi /\ Truthy(x.storedSSID)
             THEN ok /\ HandlerStep(p, Quiet, [x EXCEPT !.pc = "match"])
             ELSE Decide(p, [x EXCEPT !.onTarget = x.isWifi], ok)

CheckMatch_Mutant(p) ==
    /\ At(p, "check", "match")
    /\ \E ok \in Oks : Decide(p, [proc[p] EXCEPT !.onTarget = TRUE], ok)
CheckMatch(p) ==
    /\ At(p, "check", "match")
    /\ \E ok \in Oks :
         Decide(p, [proc[p] EXCEPT !.onTarget =
                        isConnectedToTargetNetwork(net, proc[p].storedSSID)], ok)

(* Lines 290-291: endSession has returned, startSession follows. *)
CheckRollover_Mutant(p) == Back(p, "check", "rollEnd") /\ Done(p)
CheckRollover(p) ==
    /\ Back(p, "check", "rollEnd")
    /\ \E ok \in Oks :
         HandlerStep(p, startSession(G, now, ok), [proc[p] EXCEPT !.pc = "rollStart"])

CheckDone(p) ==
    /\ proc[p].h = "check"
    /\ proc[p].pc \in {"zombie", "stop", "start", "rollStart", "beat"}
    /\ proc[p].call.fn = "ret"
    /\ Done(p)

Evaluator(p) ==
    \/ Tick(p)
    \/ CheckWifi(p)
    \/ CheckTarget(p)
    \/ CheckRaw(p)
    \/ CheckPause(p)
    \/ CheckUnpause(p)
    \/ CheckSession(p)
    \/ CheckMatch(p)
    \/ CheckRollover(p)
    \/ CheckDone(p)
    \/ ApiResume(p)

(* The Reset button, App.js 448-463: the target is cleared, the session    *)
(* ended, the ledger cleared, and checkNetworkAndSession runs; a rejection  *)
(* of clearHistory ends the handler.  (refreshTotals, which follows, only   *)
(* reads.)  Ghost `cleared`: clearHistory has completed and no endSession   *)
(* has begun since.                                                        *)
ResetBegin(p) ==
    /\ proc[p].h = "idle"
    /\ \E ok \in Oks :
         HandlerStep(p, clearTargetSSID(G, now, ok), [proc[p] EXCEPT !.h = "reset", !.pc = "clear"])
ResetEnd(p) ==
    /\ Back(p, "reset", "clear")
    /\ \E ok \in Oks :
         HandlerStep(p, endSession(G, now, ok), [proc[p] EXCEPT !.pc = "end"])
ResetHistory(p) ==
    /\ Back(p, "reset", "end")
    /\ \E ok \in Oks :
         HandlerStep(p, clearHistory(G, now, ok), [proc[p] EXCEPT !.pc = "history"])
ResetCheck(p) ==
    /\ Back(p, "reset", "history")
    /\ IF proc[p].call.val = Thrown
       THEN Done(p)
       ELSE HandlerStep(p, Quiet, [proc[p] EXCEPT !.h = "check", !.pc = "wifi",
                                                   !.cleared = TRUE])
ResetHandler(p) == ResetBegin(p) \/ ResetEnd(p) \/ ResetHistory(p) \/ ResetCheck(p)

(* The background task, App.js 33-73. *)
BgBegin(p) ==
    /\ proc[p].h = "idle"
    /\ \E ok \in Oks :
         HandlerStep(p, getTargetSSID(G, now, ok), [proc[p] EXCEPT !.h = "bg", !.pc = "target"])

BgTarget(p) ==
    /\ Back(p, "bg", "target")
    /\ \E ok \in Oks :
         HandlerStep(p, getRawSSID(G, now, ok),
                     [proc[p] EXCEPT !.storedTarget = proc[p].call.val, !.pc = "raw"])

BgRaw(p) ==
    /\ Back(p, "bg", "raw")
    /\ \E ok \in Oks :
         HandlerStep(p, getManualPause(G, now, ok),
                     [proc[p] EXCEPT !.storedSSID = proc[p].call.val, !.pc = "pause"])

(* Line 41, then the awaits of lines 44 and 46. *)
BgPause(p) ==
    /\ Back(p, "bg", "pause")
    /\ LET isManualPaused == proc[p].call.val.v
       IN  IF ~Truthy(proc[p].storedTarget) \/ isManualPaused
           THEN Done(p)
           ELSE HandlerStep(p, Quiet, [proc[p] EXCEPT !.pc = "wifi"])

(* Lines 59-68. *)
BgDecide(p, x, ok) ==
    IF x.onTarget
    THEN HandlerStep(p, getCurrentSession(G, now, ok), [x EXCEPT !.pc = "session"])
    ELSE HandlerStep(p, endSession(G, now, ok), [x EXCEPT !.pc = "end"])

BgWifi(p) ==
    /\ At(p, "bg", "wifi")
    /\ LET x == [proc[p] EXCEPT !.isWifi = isConnectedToWifi(net)]
       IN  \E ok \in Oks :
             IF x.isWifi /\ Truthy(x.storedSSID)
             THEN ok /\ HandlerStep(p, Quiet, [x EXCEPT !.pc = "match"])
             ELSE BgDecide(p, [x EXCEPT !.onTarget = x.isWifi], ok)

BgMatch(p) ==
    /\ At(p, "bg", "match")
    /\ \E ok \in Oks :
         BgDecide(p, [proc[p] EXCEPT !.onTarget =
                         isConnectedToTargetNetwork(net, proc[p].storedSSID)], ok)

BgSession(p) ==
    /\ Back(p, "bg", "session")
    /\ \E ok \in Oks :
         IF Truthy(proc[p].call.val)
         THEN HandlerStep(p, updateSessionHeartbeat(G, now, ok), [proc[p] EXCEPT !.pc = "beat"])
         ELSE HandlerStep(p, startSession(G, now, ok), [proc[p] EXCEPT !.pc = "start"])

BgDone(p) ==
    /\ proc[p].h = "bg"
    /\ proc[p].pc \in {"end", "beat", "start"}
    /\ proc[p].call.fn = "ret"
    /\ Done(p)

BackgroundTask(p) ==
    \/ BgBegin(p)
    \/ BgTarget(p)
    \/ BgRaw(p)
    \/ BgPause(p)
    \/ BgWifi(p)
    \/ BgMatch(p)
    \/ BgSession(p)
    \/ BgDone(p)
    \/ ApiResume(p)

(* The device moves between no Wi-Fi, the office network and another one. *)
Nets == {NoNet, Wifi(Val(<<"q", "e", "q">>)), Wifi(Val(<<"x">>))}
NetChange ==
    /\ \E n \in Nets \ {net} : net' = n
    /\ proc' = [p \in Procs |-> [proc[p] EXCEPT !.off = FALSE, !.began = "none"]]
    /\ UNCHANGED <<now, cache, store, heap, isEnding, fails, advances, finalized, observe>>

(* The app with a target network configured: an invocation of the         *)
(* Evaluator and a run of the background task overlap, while the network   *)
(* changes and the clock passes midnight.                                  *)
AppDeltas == {1001}
InitApp ==
    /\ observe = WithTicks(Observe(FALSE, {"startSession"}, {}, FALSE))
    /\ fails = 0
    /\ now = LedgerT0
    /\ cache = EmptyCache
    /\ \E s \in PersistedSessions, paused \in {Null, Val("true")} :
           store = [EmptyStore EXCEPT !.TARGET_SSID = Val(<<"h">>), !.RAW_SSID = Val(<<"e">>),
                                      !.IS_MANUAL_PAUSED = paused, !.CURRENT_SESSION = s]
    /\ heap = [r \in Refs |-> Free]
    /\ isEnding = FALSE
    /\ proc = [p \in Procs |-> IdleProc]
    /\ net \in Nets
    /\ advances = 0
    /\ finalized = << >>

(* One Evaluator invocation at a time, with any configuration persisted,  *)
(* while the network changes and the clock, six seconds before midnight,   *)
(* advances past the heartbeat throttle, midnight or the stale-session     *)
(* threshold.                                                              *)
EvalT0 == MsPerDay - 6000
EvalDeltas == {5000, 5001, 7000, 20 * 60 * 1000 + 1}
EvalSessions == {Null, Val(JSONstringify([start |-> EvalT0, lastActive |-> EvalT0]))}
Configs ==
    {EmptyStore,
     [EmptyStore EXCEPT !.TARGET_SSID = Val(<<"h">>)],
     [EmptyStore EXCEPT !.TARGET_SSID = Val(<<"h">>), !.RAW_SSID = Val(<<"e">>)]}
InitEval ==
    /\ observe = WithTicks(Observe(FALSE, {"endSession"}, {}, FALSE))
    /\ fails = 0
    /\ now = EvalT0
    /\ cache = EmptyCache
    /\ \E s \in EvalSessions, paused \in {Null, Val("true")}, cfg \in Configs :
           store = [cfg EXCEPT !.IS_MANUAL_PAUSED = paused, !.CURRENT_SESSION = s]
    /\ heap = [r \in Refs |-> Free]
    /\ isEnding = FALSE
    /\ proc = [p \in Procs |-> IdleProc]
    /\ net \in Nets
    /\ advances = 0
    /\ finalized = << >>
NextEval == Evaluator("timer") \/ NetChange \/ Advance(EvalDeltas, MaxEvalAdvances)
SpecEval == InitEval /\ [][NextEval]_vars
(* The interval timer (line 137) keeps invoking the Evaluator, and every    *)
(* awaited call is resumed: an invocation in progress always has a next    *)
(* step, so the weak fairness of its steps is that they keep happening.    *)
SpecEvalFair ==
    SpecEval /\ WF_vars(Tick("timer")) /\ []<><<Evaluator("timer")>>_vars

(* The Reset button is pressed while the timer's Evaluator runs, off       *)
(* Wi-Fi, with a live session and a configuration persisted.  The steps    *)
(* of checkNetworkAndSession are those it can take off Wi-Fi.              *)
OffWifiSteps(p) ==
    \/ CheckWifi(p)
    \/ CheckTarget(p)
    \/ CheckRaw(p)
    \/ CheckPause(p)
    \/ CheckUnpause(p)
    \/ CheckSession(p)
    \/ CheckDone(p)
    \/ ApiResume(p)
InitReset ==
    /\ observe = Observe(FALSE, {}, {}, FALSE)
    /\ fails = 0
    /\ now = LedgerT0
    /\ cache = EmptyCache
    /\ \E s \in PersistedSessions, paused \in {Null, Val("true")}, ledger \in PersistedLedgers :
           store = [ledger EXCEPT !.TARGET_SSID = Val(<<"h">>), !.RAW_SSID = Val(<<"e">>),
                                  !.IS_MANUAL_PAUSED = paused, !.CURRENT_SESSION = s]
    /\ heap = [r \in Refs |-> Free]
    /\ isEnding = FALSE
    /\ proc = [p \in Procs |-> IdleProc]
    /\ net = NoNet
    /\ advances = 0
    /\ finalized = << >>
NextReset ==
    \/ ResetHandler("ui")
    \/ OffWifiSteps("ui")
    \/ Tick("timer")
    \/ OffWifiSteps("timer")
    \/ Advance(LedgerDeltas, MaxAppAdvances)
SpecReset == InitReset /\ [][NextReset]_vars

(* An invocation of the Evaluator and a run of the background task overlap *)
(* while the network changes; the session left live may have started the   *)
(* day before and been kept alive by the background task's heartbeats.     *)
MatchSessions ==
    {Null, Val(JSONstringify([start |-> LedgerT0, lastActive |-> LedgerT0])),
     Val(JSONstringify([start |-> LedgerT0 - MsPerDay, lastActive |-> LedgerT0]))}
InitMatch ==
    /\ observe = Observe(FALSE, {}, {}, FALSE)
    /\ fails = 0
    /\ now = LedgerT0
    /\ cache = EmptyCache
    /\ \E s \in MatchSessions, paused \in {Null, Val("true")}, cfg \in Configs \ {EmptyStore} :
           store = [cfg EXCEPT !.IS_MANUAL_PAUSED = paused, !.CURRENT_SESSION = s]
    /\ heap = [r \in Refs |-> Free]
    /\ isEnding = FALSE
    /\ proc = [p \in Procs |-> IdleProc]
    /\ net \in Nets
    /\ advances = 0
    /\ finalized = << >>
NextMatch == Evaluator("timer") \/ BackgroundTask("bg") \/ NetChange
SpecMatch == InitMatch /\ [][NextMatch]_vars

(* The pause button, App.js 607-612: the pause flag is set to the state     *)
(* the user chooses and checkNetworkAndSession runs.  The button shows     *)
(* while a target is configured and the device is on the target network.    *)
PauseBegin(p) ==
    /\ proc[p].h = "idle"
    /\ \E ok \in Oks, newState \in BOOLEAN :
         HandlerStep(p, setManualPause(G, newState, ok),
                     [proc[p] EXCEPT !.h = "toggle", !.pc = "set"])
PauseCheck(p) ==
    /\ Back(p, "toggle", "set")
    /\ HandlerStep(p, Quiet, [proc[p] EXCEPT !.h = "check", !.pc = "wifi"])
PauseHandler(p) == PauseBegin(p) \/ PauseCheck(p)
(* The steps of checkNetworkAndSession that can be taken on Wi-Fi within    *)
(* one day and within the stale-session threshold.                          *)
OnWifiSteps(p) ==
    \/ CheckWifi(p)
    \/ CheckTarget(p)
    \/ CheckRaw(p)
    \/ CheckPause(p)
    \/ CheckSession(p)
    \/ CheckMatch(p)
    \/ CheckDone(p)
    \/ ApiResume(p)
(* The user presses the pause button while the timer's invocations run; the *)
(* device stays on the target network.                                      *)
InitPause ==
    /\ observe = Observe(FALSE, {}, {}, FALSE)
    /\ fails = 0
    /\ now = LedgerT0
    /\ cache = EmptyCache
    /\ \E s \in PersistedSessions, paused \in {Null, Val("true")} :
           store = [EmptyStore EXCEPT !.TARGET_SSID = Val(<<"h">>), !.RAW_SSID = Val(<<"e">>),
                                      !.IS_MANUAL_PAUSED = paused, !.CURRENT_SESSION = s]
    /\ heap = [r \in Refs |-> Free]
    /\ isEnding = FALSE
    /\ proc = [p \in Procs |-> IdleProc]
    /\ net = Wifi(Val(<<"q", "e", "q">>))
    /\ advances = 0
    /\ finalized = << >>
NextPause ==
    \/ PauseHandler("ui")
    \/ OnWifiSteps("ui")
    \/ Tick("timer")
    \/ OnWifiSteps("timer")
SpecPause == InitPause /\ [][NextPause]_vars

(* The timer's invocations on the target network while store operations    *)
(* may fail.                                                                *)
InitTickFaulty ==
    /\ observe = Observe(FALSE, {}, {}, FALSE)
    /\ fails = MaxFails
    /\ now = LedgerT0
    /\ cache = EmptyCache
    /\ \E s \in PersistedSessions, paused \in {Null, Val("true")} :
           store = [EmptyStore EXCEPT !.TARGET_SSID = Val(<<"h">>), !.RAW_SSID = Val(<<"e">>),
                                      !.IS_MANUAL_PAUSED = paused, !.CURRENT_SESSION = s]
    /\ heap = [r \in Refs |-> Free]
    /\ isEnding = FALSE
    /\ proc = [p \in Procs |-> IdleProc]
    /\ net = Wifi(Val(<<"q", "e", "q">>))
    /\ advances = 0
    /\ finalized = << >>
NextTickFaulty ==
    \/ Tick("timer")
    \/ OnWifiSteps("timer")
    \/ Advance(LedgerDeltas, MaxAppAdvances)
    \/ Restart
SpecTickFaulty == InitTickFaulty /\ [][NextTickFaulty]_vars

(* A client that reads what an earlier run, or another program, left in    *)
(* the store: every key is absent or holds a text that does not parse.     *)
Unparsable(v) == Val([wf |-> FALSE, v |-> v])
ReadClient(p) ==
    \/ CallGetGoalHours(p)
    \/ CallGetCurrentSession(p)
    \/ CallReader(p)
    \/ ApiResume(p)
    \/ ApiReturn(p)
InitMalformed ==
    /\ observe = Observe(TRUE, {}, {}, FALSE)
    /\ fails = 0
    /\ now = LedgerT0
    /\ cache = EmptyCache
    /\ \E goal \in {Null, Unparsable(0)}, s \in {Null, Val(UnparsableText)},
          h \in {Null, Unparsable(EmptyMap)}, d \in {Null, Unparsable(EmptyMap)} :
           store = [EmptyStore EXCEPT !.GOAL_HOURS = goal, !.CURRENT_SESSION = s,
                                      !.HISTORY = h, !.SESSIONS = d]
    /\ heap = [r \in Refs |-> Free]
    /\ isEnding = FALSE
    /\ proc = [p \in Procs |-> IdleProc]
    /\ net = NoNet
    /\ advances = 0
    /\ finalized = << >>
NextMalformed == ReadClient("ui")
SpecMalformed == InitMalformed /\ [][NextMalformed]_vars

(* Two clients that start and end sessions, one of which also clears the   *)
(* ledger, while store operations may fail; the app comes back after       *)
(* midnight, two seconds after the session left live was started.          *)
ClearClient(p) == GuardClient(p) \/ CallClearHistory(p)
MonoTime == LedgerT0 + 2001
InitMono ==
    /\ observe = Observe(FALSE, {}, {}, FALSE)
    /\ fails = MaxFails
    /\ now = MonoTime
    /\ cache = EmptyCache
    /\ \E s \in PersistedSessions, ledger \in PersistedLedgers :
           store = [ledger EXCEPT !.CURRENT_SESSION = s]
    /\ heap = [r \in Refs |-> Free]
    /\ isEnding = FALSE
    /\ proc = [p \in Procs |-> IdleProc]
    /\ net = NoNet
    /\ advances = 0
    /\ finalized = << >>
NextMono == ClearClient("ui") \/ GuardClient("timer")
SpecMono == InitMono /\ [][NextMono]_vars

(* isConnectedToTargetNetwork asked on every platform and network, with   *)
(* every target: the caller's record holds the target and the answer.      *)
Platforms == {"android", "ios", "web"}
NetTypes == {"wifi", "cellular", "none"}
SSIDs == {Null, Val(<<"e">>), Val(<<"q", "e", "q">>), Val(<<"q", "e">>), Val(<<"q", "q">>),
          Val(<<"x">>)}
Targets == {Null, Val(<< >>), Val(<<"e">>), Val(<<"q", "e">>)}
InitNet ==
    /\ observe = Observe(FALSE, {}, {}, FALSE)
    /\ fails = 0
    /\ now = LedgerT0
    /\ cache = EmptyCache
    /\ store = EmptyStore
    /\ heap = [r \in Refs |-> Free]
    /\ isEnding = FALSE
    /\ proc = [p \in Procs |-> IdleProc]
    /\ net \in [ok : BOOLEAN, type : NetTypes, isConnected : BOOLEAN, ssid : SSIDs,
                 os : Platforms]
    /\ advances = 0
    /\ finalized = << >>
AskTarget(p) ==
    /\ proc[p].h = "idle"
    /\ \E targetSSID \in Targets :
         HandlerStep(p, Quiet, [proc[p] EXCEPT !.h = "asked", !.storedSSID = targetSSID,
                                !.isWifi = isConnectedToWifi(net),
                                !.onTarget = isConnectedToTargetNetwork(net, targetSSID)])
Answered(p) == proc[p].h = "asked" /\ Done(p)
NextNet == AskTarget("ui") \/ Answered("ui")
SpecNet == InitNet /\ [][NextNet]_vars

NextApp ==
    \/ Evaluator("timer")
    \/ BackgroundTask("bg")
    \/ NetChange
    \/ Advance(AppDeltas, MaxAppAdvances)
SpecApp == InitApp /\ [][NextApp]_vars

----------------------------------------------------------------------------
(* What the claims about single calls look at: the state in which caller   *)
(* p's call of fn has just completed, with the snapshot p took on calling. *)
Returned(p, fn) == proc[p].call.fn = "ret" /\ proc[p].call.of = fn
MapOf(text) == IF text = Null THEN EmptyMap ELSE JSONparse(text.v)
HistoryMap == MapOf(store.HISTORY)
SessionsMap == MapOf(store.SESSIONS)
Appended(m, k, e) == Put(m, k, Append(Lookup(m, k, << >>), e))
Added(m, k, n) == Put(m, k, Lookup(m, k, 0) + n)
Interval(s, e) == [start |-> s, end |-> e, duration |-> e - s]

(* endSession has completed for caller p after processing a session that   *)
(* started at EndedStart(p), with `now` equal to EndedNow(p).               *)
Ended(p) == Returned(p, "endSession") /\ proc[p].call.sess # 0
EndedStart(p) == heap[proc[p].call.sess].start
EndedNow(p) == proc[p].call.t0
SameDay(p) == DayKey(EndedStart(p)) = DayKey(EndedNow(p))

(* C4: a same-day session shorter than 1000 ms adds nothing to History and *)
(* nothing to SessionDetail when endSession ends it, and the live session  *)
(* is cleared from the cache and from the store.                           *)
C4_ShortSessionDiscarded ==
    \A p \in Procs :
        (Ended(p) /\ SameDay(p) /\ EndedNow(p) - EndedStart(p) < 1000)
        => /\ store.HISTORY = proc[p].pre.history
           /\ store.SESSIONS = proc[p].pre.sessions
           /\ cache.CURRENT_SESSION = Null
           /\ store.CURRENT_SESSION = Null

C4_Witness ==
    \E p \in Procs :
        /\ Ended(p) /\ SameDay(p)
        /\ EndedNow(p) - EndedStart(p) = 999

(* C5: a same-day session of at least 1000 ms adds exactly now - start to  *)
(* History at the start day's key (now being the time of the endSession    *)
(* call, not the last heartbeat) and appends exactly one SessionDetail     *)
(* {start, end: now, duration: now - start} under the same key.            *)
C5_SameDayRecordedOnce ==
    \A p \in Procs :
        (Ended(p) /\ SameDay(p) /\ EndedNow(p) - EndedStart(p) >= 1000)
        => LET s == EndedStart(p)
               t == EndedNow(p)
           IN  /\ HistoryMap = Added(MapOf(proc[p].pre.history), DayKey(s), t - s)
               /\ SessionsMap = Appended(MapOf(proc[p].pre.sessions), DayKey(s), Interval(s, t))

(* The session had a heartbeat older than the endSession call. *)
C5_Witness ==
    \E p \in Procs :
        /\ Ended(p) /\ SameDay(p)
        /\ EndedNow(p) - EndedStart(p) >= 1000
        /\ proc[p].pre.session.t = "val"
        /\ proc[p].pre.session.v.lastActive < EndedNow(p)

(* C6: a session whose start day differs from the day of now is split into *)
(* A = [start, end of start day] and B = [end of start day + 1 ms, now];   *)
(* each segment of at least 1000 ms is recorded under its day; A and B do  *)
(* not overlap, and when both are recorded their durations sum to          *)
(* (now - start) - 1.                                                      *)
C6_MidnightSplit ==
    \A p \in Procs :
        (Ended(p) /\ ~SameDay(p))
        => LET s   == EndedStart(p)
               t   == EndedNow(p)
               eod == (s \div MsPerDay) * MsPerDay + (MsPerDay - 1)
               A   == Interval(s, eod)
               B   == Interval(eod + 1, t)
               hA  == IF A.duration >= 1000
                      THEN Added(MapOf(proc[p].pre.history), DayKey(s), A.duration)
                      ELSE MapOf(proc[p].pre.history)
               dA  == IF A.duration >= 1000
                      THEN Appended(MapOf(proc[p].pre.sessions), DayKey(s), A)
                      ELSE MapOf(proc[p].pre.sessions)
               hB  == IF B.duration >= 1000 THEN Added(hA, DayKey(t), B.duration) ELSE hA
               dB  == IF B.duration >= 1000 THEN Appended(dA, DayKey(B.start), B) ELSE dA
           IN  /\ HistoryMap = hB
               /\ SessionsMap = dB
               /\ A.end < B.start
               /\ (A.duration >= 1000 /\ B.duration >= 1000)
                  => /\ Last(SessionsMap[DayKey(s)]).duration + Last(SessionsMap[DayKey(t)]).duration
                          = (t - s) - 1
                     /\ HistoryMap[DayKey(s)] + HistoryMap[DayKey(t)] = (t - s) - 1

(* Both segments are long enough to be recorded. *)
C6_Witness ==
    \E p \in Procs :
        /\ Ended(p) /\ ~SameDay(p)
        /\ EndOfDay(EndedStart(p)) - EndedStart(p) >= 1000
        /\ EndedNow(p) - (EndOfDay(EndedStart(p)) + 1) >= 1000

(* C9: startSession, called when no session is live, returns a session     *)
(* with start = lastActive = now that is in the cache slot and in the      *)
(* store key CURRENT_SESSION; the getCurrentSession call made right after  *)
(* returns a session equal to it.                                          *)
NoLiveSession(snap) == snap.session.t # "val" /\ snap.stored = Null
C9_StartSession ==
    \A p \in Procs :
        /\ (Returned(p, "startSession") /\ NoLiveSession(proc[p].pre))
           => LET v == proc[p].call.val
              IN  /\ v.t = "obj"
                  /\ heap[v.r] = [start |-> proc[p].pre.t, lastActive |-> proc[p].pre.t]
                  /\ cache.CURRENT_SESSION = v
                  /\ store.CURRENT_SESSION = Val(JSONstringify(heap[v.r]))
        /\ (Returned(p, "getCurrentSession") /\ proc[p].last.of = "startSession")
           => /\ proc[p].call.val.t = "obj"
              /\ proc[p].last.val.t = "obj"
              /\ heap[proc[p].call.val.r] = heap[proc[p].last.val.r]

C9_Witness ==
    \E p \in Procs :
        /\ Returned(p, "getCurrentSession")
        /\ proc[p].last.of = "startSession"
        /\ proc[p].call.val.t = "obj"
        /\ heap[proc[p].call.val.r].start > LedgerT0

(* C7: a getter whose cache slot is populated returns the slot's value and *)
(* issues no store read.  After setTargetSSID(name, raw) with a non-empty  *)
(* name, the getTargetSSID call made right after returns name; the         *)
(* getRawSSID call made right after returns raw with one leading and one   *)
(* trailing double quote removed if raw is non-empty and the write of the  *)
(* name succeeded, and otherwise what the raw slot held before the call    *)
(* (the store's value, or null if the read fails, when it held nothing).   *)
(* With an empty name both getters return null.                            *)
Unquoted(s) ==
    LET a == IF Len(s) >= 1 /\ s[1] = "q" THEN 2 ELSE 1
        b == IF Len(s) >= a /\ s[Len(s)] = "q" THEN Len(s) - 1 ELSE Len(s)
    IN  [i \in 1..(b - a + 1) |-> s[i + a - 1]]
SlotGetters == {"getTargetSSID", "getRawSSID", "getGoalHours", "getManualPause"}
CacheHit(p) ==
    /\ \A fn \in SlotGetters :
          (Returned(p, fn) /\ proc[p].pre.slot # Undefined)
          => (proc[p].call.val = proc[p].pre.slot /\ proc[p].call.reads = 0)
    /\ (Returned(p, "getCurrentSession") /\ proc[p].pre.session # Undefined)
       => /\ proc[p].call.reads = 0
          /\ IF proc[p].pre.session = Null
             THEN proc[p].call.val = Null
             ELSE /\ proc[p].call.val.t = "obj"
                  /\ Val(heap[proc[p].call.val.r]) = proc[p].pre.session
AfterSet(p, fn) == Returned(p, fn) /\ proc[p].last.of = "setTargetSSID"
C7_CacheAndTarget ==
    \A p \in Procs :
        /\ CacheHit(p)
        /\ AfterSet(p, "getTargetSSID")
           => proc[p].call.val = IF Falsy(proc[p].last.arg.name)
                                 THEN Null ELSE proc[p].last.arg.name
        /\ AfterSet(p, "getRawSSID")
           => LET name == proc[p].last.arg.name
                  raw  == proc[p].last.arg.rawSSID
              IN  proc[p].call.val =
                    IF Falsy(name) THEN Null
                    ELSE IF ~Falsy(raw) /\ proc[p].last.err # "set1"
                         THEN Val(Unquoted(raw.v))
                    ELSE IF proc[p].last.slot # Undefined THEN proc[p].last.slot
                    ELSE IF proc[p].call.err = "get" THEN Null
                    ELSE store.RAW_SSID

(* The raw SSID had a quote at both ends before the one that is removed. *)
C7_Witness ==
    \E p \in Procs :
        /\ AfterSet(p, "getRawSSID")
        /\ proc[p].last.arg.rawSSID = Val(<<"q", "c", "q">>)
        /\ proc[p].call.val = Val(<<"c">>)
        /\ proc[p].call.reads = 0

(* C7 as the specification states it, for non-empty names: getRawSSID      *)
(* returns raw with its quotes removed whatever raw is.                    *)
C7_AsStated ==
    \A p \in Procs :
        /\ CacheHit(p)
        /\ (AfterSet(p, "getTargetSSID") /\ ~Falsy(proc[p].last.arg.name))
           => proc[p].call.val = proc[p].last.arg.name
        /\ (AfterSet(p, "getRawSSID") /\ ~Falsy(proc[p].last.arg.name))
           => LET raw == proc[p].last.arg.rawSSID
              IN  proc[p].call.val = IF raw = Null THEN Null ELSE Val(Unquoted(raw.v))

(* C8: whenever no StorageService call is in flight, every populated cache *)
(* slot holds the value its getter would derive from the store: the text   *)
(* of an SSID key, the parsed goal (the default when the key is absent),   *)
(* whether the pause key is 'true', the parsed session; null exactly when  *)
(* an SSID or session key is absent.                                       *)
Quiescent == \A p \in Procs : ~Pending(proc[p].call)
Slots == {"TARGET_SSID", "RAW_SSID", "GOAL_HOURS", "IS_MANUAL_PAUSED", "CURRENT_SESSION"}
Cached(k) ==
    IF cache[k].t = "obj" THEN Val(heap[cache[k].r]) ELSE cache[k]
Stored(k) ==
    CASE k \in {"TARGET_SSID", "RAW_SSID"} -> store[k]
      [] k = "GOAL_HOURS" -> IF store[k] = Null THEN Val(DefaultGoalHours)
                             ELSE Val(parseFloat(store[k].v))
      [] k = "IS_MANUAL_PAUSED" -> Val(store[k] = Val("true"))
      [] k = "CURRENT_SESSION" -> IF store[k] = Null THEN Null
                                  ELSE Val(JSONparse(store[k].v))
C8_CacheMatchesStore ==
    Quiescent => \A k \in Slots : cache[k] # Undefined => Cached(k) = Stored(k)

(* C1: at most one endSession invocation is past the reentrancy guard, and *)
(* the guard flag is set exactly while one is; an endSession call made     *)
(* while another is in flight returns at once, issuing no store operation  *)
(* and changing neither cache nor store nor any session object; History    *)
(* and SessionDetail are written only on behalf of the one invocation in   *)
(* flight.                                                                 *)
Ending == {p \in Procs : proc[p].call.fn = "endSession"}
OneEnding == Cardinality(Ending) <= 1 /\ (isEnding <=> Ending # {})
CallsEndSession(p) ==
    proc[p].h = "idle" /\ "endSession" \in {proc'[p].call.fn, proc'[p].call.of}
SecondIsDropped ==
    \A p \in Procs :
        (isEnding /\ CallsEndSession(p))
        => /\ proc'[p].call = Dropped(Enter("endSession"))
           /\ UNCHANGED <<cache, store, heap, isEnding>>
LedgerWrittenByEnding ==
    (store'.HISTORY # store.HISTORY \/ store'.SESSIONS # store.SESSIONS)
    => \E p \in Ending : Ending = {p} /\ proc'[p] # proc[p]
C1_ReentrancyGuard == []OneEnding /\ [][SecondIsDropped /\ LedgerWrittenByEnding]_vars

(* An endSession call has been dropped while another one is in flight. *)
C1_Witness ==
    \E p, q \in Procs :
        /\ Returned(p, "endSession") /\ proc[p].call.pc = "dropped"
        /\ proc[q].call.fn = "endSession" /\ proc[q].call.sess # 0

(* C10: every session object and the persisted session have               *)
(* lastActive >= start, and no step changes the start of a session object: *)
(* a heartbeat or an endSession leaves the start it was created with.      *)
StoredSession == JSONparse(store.CURRENT_SESSION.v)
LastActiveNotBeforeStart ==
    /\ \A r \in Refs : heap[r] # Free => heap[r].lastActive >= heap[r].start
    /\ store.CURRENT_SESSION # Null => StoredSession.lastActive >= StoredSession.start
StartKept ==
    \A r \in Refs : (heap[r] # Free /\ heap'[r] # Free) => heap'[r].start = heap[r].start
C3_StartOnlyWhenNoneLive ==
    \A p \in Procs : FnOf(proc[p].call) = "startSession" => NoLiveSession(proc[p].pre)

(* C2: whenever no call is in flight, History holds each finalized segment *)
(* of at least 1000 ms exactly once under its day, and SessionDetail holds *)
(* exactly one entry for each, in the order they were finalized.           *)
RECURSIVE HistoryOf(_)
HistoryOf(segs) ==
    IF segs = << >> THEN EmptyMap
    ELSE Added(HistoryOf(Front(segs)), Last(segs).day, Last(segs).duration)
RECURSIVE SessionsOf(_)
SessionsOf(segs) ==
    IF segs = << >> THEN EmptyMap
    ELSE Appended(SessionsOf(Front(segs)), Last(segs).day,
                  Interval(Last(segs).start, Last(segs).end))
C2_RecordedExactlyOnce ==
    Quiescent => (HistoryMap = HistoryOf(finalized) /\ SessionsMap = SessionsOf(finalized))

(* C11: once an Evaluator invocation has run from beginning to end with    *)
(* the device off Wi-Fi, the manual pause is set neither in the cache nor  *)
(* in the store for as long as the device stays off Wi-Fi.                 *)
PauseCleared ==
    cache.IS_MANUAL_PAUSED # Val(TRUE) /\ store.IS_MANUAL_PAUSED # Val("true")
OffWifiTickDone == \E p \in Procs : proc[p].h = "idle" /\ proc[p].off
C11_PauseClearedOffWifi == OffWifiTickDone => PauseCleared

(* C12: an Evaluator invocation whose session read gives a live session    *)
(* with now - lastActive above 20 minutes calls endSession at once, makes   *)
(* no other StorageService call afterwards and returns when endSession has  *)
(* returned, with the session gone from cache and store, whatever the       *)
(* network, the target configuration and the manual pause are.              *)
FindsStale(p) ==
    /\ Back(p, "check", "session")
    /\ Truthy(proc[p].call.val)
    /\ now - heap[proc[p].call.val.r].lastActive > 1200000
Moves(p) == proc'[p].h # proc[p].h \/ proc'[p].pc # proc[p].pc
StaleIsEnded ==
    \A p \in Procs :
        /\ FindsStale(p) /\ Moves(p) =>
               At(p, "check", "zombie")' /\ FnOf(proc'[p].call) = "endSession"
        /\ At(p, "check", "zombie") /\ Moves(p) => proc'[p].h = "idle"
OnlyEndsStale ==
    \A p \in Procs :
        At(p, "check", "zombie") =>
            /\ FnOf(proc[p].call) = "endSession"
            /\ proc[p].call.fn = "ret" =>
                   cache.CURRENT_SESSION = Null /\ store.CURRENT_SESSION = Null
C12_StaleSessionEnded == []OnlyEndsStale /\ [][StaleIsEnded]_vars
(* The stale session has been ended although the device is on the target   *)
(* network, a target is configured and the pause is off.                   *)
C12_Witness ==
    /\ Back("timer", "check", "zombie")
    /\ ShouldTrackNow
    /\ store.CURRENT_SESSION = Null

(* C13: an Evaluator invocation that begins with a live session and        *)
(* should-track false, the network not changing meanwhile, calls           *)
(* endSession and returns with no session in cache or store; and if        *)
(* should-track stays false from some point on, then from some point on    *)
(* there is no live session in cache or store.                             *)
NoSessionLeft == Falsy(cache.CURRENT_SESSION) /\ store.CURRENT_SESSION = Null
Returns(p) == proc[p].h = "check" /\ proc'[p].h = "idle"
StopCallsEndSession ==
    \A p \in Procs :
        proc[p].began = "stop" /\ Returns(p) =>
            /\ proc[p].pc \in {"stop", "zombie"}
            /\ FnOf(proc[p].call) = "endSession"
            /\ NoSessionLeft
C13_StopWhenNotTracking ==
    /\ [][StopCallsEndSession]_vars
    /\ <>[]~ShouldTrackNow => <>[]NoSessionLeft
(* A session that was live while the pause was on has been ended on the    *)
(* target network.                                                         *)
C13_Witness ==
    /\ Back("timer", "check", "stop")
    /\ proc["timer"].began = "stop"
    /\ proc["timer"].isPaused /\ proc["timer"].onTarget
    /\ NoSessionLeft

(* C14: an Evaluator invocation that begins with no live session and       *)
(* should-track true, the network not changing meanwhile, calls            *)
(* startSession and returns with a live session in cache and store; and if *)
(* should-track stays true from some point on (store operations            *)
(* succeeding), a live session is held again and again, whatever midnight  *)
(* or a stale session make the Evaluator end.                              *)
SessionHeld == cache.CURRENT_SESSION.t = "obj" /\ store.CURRENT_SESSION # Null
StartCallsStartSession ==
    \A p \in Procs :
        proc[p].began = "start" /\ Returns(p) =>
            /\ proc[p].pc = "start"
            /\ FnOf(proc[p].call) = "startSession"
            /\ SessionHeld
C14_StartWhenTracking ==
    /\ [][StartCallsStartSession]_vars
    /\ <>[]ShouldTrackNow => []<>SessionHeld
(* A session has been started on a network that matches the stored raw     *)
(* SSID once its quotes are stripped.                                      *)
C14_Witness ==
    /\ Back("timer", "check", "start")
    /\ proc["timer"].began = "start"
    /\ Truthy(store.RAW_SSID)
    /\ SessionHeld

(* C15: when clearTargetSSID, or setTargetSSID with an empty name, has     *)
(* completed, the keys TARGET_SSID and RAW_SSID are absent from the store   *)
(* and both cache slots hold null, which is what getTargetSSID and          *)
(* getRawSSID then return.                                                  *)
ClearsSSID(p) ==
    \/ Returned(p, "clearTargetSSID")
    \/ Returned(p, "setTargetSSID") /\ Falsy(proc[p].pre.arg.name)
C15_ClearedEverywhere ==
    \A p \in Procs :
        ClearsSSID(p) =>
            /\ store.TARGET_SSID = Null /\ store.RAW_SSID = Null
            /\ cache.TARGET_SSID = Null /\ cache.RAW_SSID = Null

(* C16: getGoalHours returns 8.5 and getManualPause returns false when the  *)
(* slot is unpopulated and the store holds no value for the key; and when   *)
(* setGoalHours(h) or setManualPause(b) has completed, the getter returns   *)
(* h or b both from the cache as it is and from an emptied cache, where it  *)
(* reads the store.                                                         *)
ColdRead(fn, key) == Susp(Enter(fn), "get", store[key])
Restarted == [G EXCEPT !.cache = EmptyCache]
GoalNow == getGoalHours(G, now, TRUE).c.val
GoalAfterRestart ==
    getGoalHours_resume(Restarted, ColdRead("getGoalHours", "GOAL_HOURS"), now, TRUE).c.val
PauseNow == getManualPause(G, now, TRUE).c.val
PauseAfterRestart ==
    getManualPause_resume(Restarted, ColdRead("getManualPause", "IS_MANUAL_PAUSED"),
                          now, TRUE).c.val
Unset(p, fn, key) ==
    Returned(p, fn) /\ proc[p].pre.slot = Undefined /\ store[key] = Null
C16_DefaultsAndRoundTrip ==
    \A p \in Procs :
        /\ Unset(p, "getGoalHours", "GOAL_HOURS") => proc[p].call.val = Val(85)
        /\ Unset(p, "getManualPause", "IS_MANUAL_PAUSED") => proc[p].call.val = Val(FALSE)
        /\ Returned(p, "setGoalHours") =>
               /\ GoalNow = Val(proc[p].pre.arg.hours)
               /\ GoalAfterRestart = Val(proc[p].pre.arg.hours)
        /\ Returned(p, "setManualPause") =>
               /\ PauseNow = Val(proc[p].pre.arg.isPaused)
               /\ PauseAfterRestart = Val(proc[p].pre.arg.isPaused)

(* C17: getTodayDuration and getDurationForDate return 0, and               *)
(* getTodaySessions and getSessionsForDate return the empty list, for a day *)
(* key the ledger in the store has no entry for, whether the map is absent, *)
(* lacks the key, or the read fails; and they never return null or          *)
(* undefined.                                                               *)
DurationReaders == {"getTodayDuration", "getDurationForDate"}
SessionReaders == {"getTodaySessions", "getSessionsForDate"}
NoData(key, dateKey) == dateKey \notin DOMAIN MapOf(store[key])
C17_EmptyDayDefaults ==
    \A p \in Procs :
        /\ \A fn \in DurationReaders :
              Returned(p, fn) =>
                 /\ proc[p].call.val.t = "val"
                 /\ NoData("HISTORY", proc[p].pre.arg) => proc[p].call.val = Val(0)
        /\ \A fn \in SessionReaders :
              Returned(p, fn) =>
                 /\ proc[p].call.val.t = "val"
                 /\ NoData("SESSIONS", proc[p].pre.arg) => proc[p].call.val = Val(<< >>)
(* The map is present and lacks the key; the read succeeded.              *)
C17_Witness ==
    /\ Returned("ui", "getDurationForDate")
    /\ store.HISTORY # Null /\ NoData("HISTORY", proc["ui"].pre.arg)
    /\ proc["ui"].call.val = Val(0)
    /\ proc["ui"].call.err = ""

(* C18: from the completion of clearHistory until an endSession invocation *)
(* begins, getHistory returns the empty map and getTodaySessions the empty  *)
(* list, also when an endSession was in flight while the ledger was         *)
(* cleared.                                                                 *)
HistoryRead ==
    ReadMap_resume(G, getHistory([G EXCEPT !.fails = 0], now, TRUE).c, now, TRUE).c.val
TodaySessionsRead ==
    ReadMap_resume(G, getTodaySessions([G EXCEPT !.fails = 0], now, TRUE).c, now, TRUE).c.val
C18_ClearedStaysEmpty ==
    (\E p \in Procs : proc[p].cleared) =>
        HistoryRead = Val(EmptyMap) /\ TodaySessionsRead = Val(<< >>)

(* C19: a StorageService call during which a store operation failed still  *)
(* completes without raising to its caller, with its safe default: 0 from  *)
(* the duration readers, the empty map or list from the other readers, and  *)
(* nothing from startSession, endSession and clearHistory.                  *)
FailedCall(p) == proc[p].call.fn = "ret" /\ proc[p].call.err # ""
SafeDefault(fn, v) ==
    CASE fn \in DurationReaders -> v = Val(0)
      [] fn \in SessionReaders \cup {"getHistory"} -> v = Val(<< >>)
      [] OTHER -> v.t \in {"undefined", "null"}
C19_NoExceptionOnFailure ==
    \A p \in Procs :
        FailedCall(p) =>
            /\ proc[p].call.val # Thrown
            /\ SafeDefault(proc[p].call.of, proc[p].call.val)

(* C20: isConnectedToTargetNetwork(target) is false off Wi-Fi and for an   *)
(* absent target; on Wi-Fi with a target, where the SSID resolves (it was   *)
(* read, on Android or iOS, and is not empty once one leading and one       *)
(* trailing quote are stripped) it is true exactly when the stripped SSID   *)
(* equals the target; where it does not resolve it is true on iOS and       *)
(* false on Android and on any other platform.                              *)
Asked(p) == proc[p].h = "asked"
OnWifi(n) == n.ok /\ n.type = "wifi" /\ n.isConnected
Resolves(n) ==
    n.os \in {"android", "ios"} /\ n.ssid # Null /\ Unquoted(n.ssid.v) # << >>
AbsentTarget(t) == t = Null \/ t = Val(<< >>)
C20_TargetMatch ==
    \A p \in Procs :
        Asked(p) =>
            proc[p].onTarget =
                IF ~OnWifi(net) \/ AbsentTarget(proc[p].storedSSID) THEN FALSE
                ELSE IF Resolves(net) THEN Val(Unquoted(net.ssid.v)) = proc[p].storedSSID
                ELSE net.os = "ios"
(* A quoted SSID matches the target on Android. *)
C20_Witness ==
    /\ Asked("ui") /\ proc["ui"].onTarget
    /\ net.os = "android" /\ net.ssid = Val(<<"q", "e", "q">>)
    /\ proc["ui"].storedSSID = Val(<<"e">>)
(* C20 as the specification states it: true on Wi-Fi wherever the SSID     *)
(* does not resolve.                                                       *)
C20_AsStated ==
    \A p \in Procs :
        Asked(p) =>
            proc[p].onTarget =
                IF ~OnWifi(net) \/ AbsentTarget(proc[p].storedSSID) THEN FALSE
                ELSE IF Resolves(net) THEN Val(Unquoted(net.ssid.v)) = proc[p].storedSSID
                ELSE TRUE

(* C21: isConnectedToWifi answers true exactly when the network state has   *)
(* type wifi and isConnected true; it answers false for cellular, for no    *)
(* connection and when the network state query fails.                       *)
C21_WifiExactly ==
    \A p \in Procs :
        Asked(p) =>
            /\ proc[p].isWifi = (net.ok /\ net.type = "wifi" /\ net.isConnected)
            /\ (~net.ok \/ net.type \in {"cellular", "none"}) => ~proc[p].isWifi
(* A Wi-Fi interface that is not connected answers false, and a connected  *)
(* cellular link answers false.                                             *)
C21_Witness ==
    /\ Asked("ui") /\ ~proc["ui"].isWifi
    /\ net.ok /\ net.type = "wifi" /\ ~net.isConnected

(* C22: in every reachable state the store holds no value derived from the  *)
(* network's actual SSID; here, once setTargetSSID has returned, the key     *)
(* RAW_SSID does not hold the SSID that was captured and passed to it.       *)
CapturedSSID(p) == proc[p].pre.arg.rawSSID
SetWithSSID(p) ==
    /\ Returned(p, "setTargetSSID")
    /\ Truthy(proc[p].pre.arg.name)
    /\ Truthy(CapturedSSID(p))
C22_NoSsidPersisted ==
    \A p \in Procs :
        SetWithSSID(p) => store.RAW_SSID # Val(Unquoted(CapturedSSID(p).v))

(* C23: an endSession that passes the reentrancy guard resets the in-flight *)
(* flag before it completes, on every path: the flag is set exactly while   *)
(* some endSession is executing, a completing endSession leaves it reset,   *)
(* and a call is dropped only while another endSession is executing.        *)
Executing(p) == proc[p].call.fn = "endSession"
WasDropped(c) == c.fn = "ret" /\ c.of = "endSession" /\ c.pc = "dropped"
Completes(p) == Executing(p) /\ proc'[p].call.fn = "ret"
DropsCall(p) == ~WasDropped(proc[p].call) /\ WasDropped(proc'[p].call)
FlagWhileExecuting == isEnding <=> \E p \in Procs : Executing(p)
C23_FlagAlwaysReset ==
    /\ []FlagWhileExecuting
    /\ [][\A p \in Procs :
            /\ Completes(p) => ~isEnding'
            /\ DropsCall(p) => \E q \in Procs \ {p} : Executing(q)]_vars
(* An endSession whose read of the session failed has returned, the flag   *)
(* is reset, and the next endSession has passed the guard.                  *)
C23_Witness ==
    /\ Returned("ui", "endSession") /\ proc["ui"].call.err = "get"
    /\ Executing("timer") /\ proc["timer"].call.pc = "rm"

(* C24: when endSession has found a live session and completes, the cache   *)
(* slot is null and the key CURRENT_SESSION is absent from the store, also   *)
(* when the remove operation fails.                                         *)
C24_SessionGone ==
    \A p \in Procs :
        Ended(p) => cache.CURRENT_SESSION = Null /\ store.CURRENT_SESSION = Null

(* C25: in the cross-midnight case segment A's History increment and       *)
(* SessionDetail entry are filed under the start day's key, and segment    *)
(* B's increment and entry are both filed under the day key of now, also   *)
(* when more than one midnight lies between start and now.                 *)
C25_SegmentsFiledTogether ==
    \A p \in Procs :
        (Ended(p) /\ ~SameDay(p))
        => LET s0 == EndedStart(p)
               t  == EndedNow(p)
               A  == Interval(s0, EndOfDay(s0))
               B  == Interval(EndOfDay(s0) + 1, t)
               hA == IF A.duration >= 1000
                     THEN Added(MapOf(proc[p].pre.history), DayKey(s0), A.duration)
                     ELSE MapOf(proc[p].pre.history)
               dA == IF A.duration >= 1000
                     THEN Appended(MapOf(proc[p].pre.sessions), DayKey(s0), A)
                     ELSE MapOf(proc[p].pre.sessions)
           IN  /\ HistoryMap = IF B.duration >= 1000 THEN Added(hA, DayKey(t), B.duration) ELSE hA
               /\ SessionsMap = IF B.duration >= 1000 THEN Appended(dA, DayKey(t), B) ELSE dA

(* C26: the Evaluator and the background task start a session only when    *)
(* a target is configured and manual pause is not set: no step creates a   *)
(* session while the pause flag is set or no target is configured.         *)
Creates(p) == proc[p].call.fn # "startSession" /\ proc'[p].call.fn = "startSession"
PauseSet == store.IS_MANUAL_PAUSED = Val("true") /\ cache.IS_MANUAL_PAUSED = Val(TRUE)
C26_NoStartWhilePaused ==
    [][\A p \in Procs : Creates(p) => ~PauseSet /\ Truthy(store.TARGET_SSID)]_vars

(* C27: an invocation that finds a live session, should-track true and the  *)
(* session's start day different from today's calls endSession and then    *)
(* startSession: when endSession has returned the old session's time is    *)
(* split at midnight into History and SessionDetail, and when startSession *)
(* has returned a live session exists whose start day is today's.          *)
SeenSession(p) == IF proc[p].pc = "match" THEN proc[p].session ELSE proc[p].call.val
SeenOnTarget(p) ==
    IF proc[p].pc = "match"
    THEN /\ net.ok /\ net.type = "wifi" /\ net.isConnected /\ net.ssid.t = "val"
         /\ Val(Unquoted(net.ssid.v)) = proc[p].storedSSID
    ELSE proc[p].isWifi
Decides(p) ==
    /\ proc[p].h = "check"
    /\ proc[p].pc \in {"session", "match"}
    /\ proc'[p].pc \notin {"session", "match"}
RolloverDue(p) ==
    /\ Truthy(SeenSession(p))
    /\ SeenOnTarget(p) /\ Truthy(proc[p].storedTarget) /\ ~proc[p].isPaused
    /\ DayKey(heap[SeenSession(p).r].start) # DayKey(now)
    /\ proc[p].pc = "session" => now - heap[SeenSession(p).r].lastActive <= 1200000
RolloverCalls ==
    \A p \in Procs :
        /\ Decides(p) =>
              (RolloverDue(p) <=> (proc'[p].pc = "rollEnd" /\ FnOf(proc'[p].call) = "endSession"))
        /\ (At(p, "check", "rollEnd") /\ Moves(p)) =>
              (At(p, "check", "rollStart")' /\ FnOf(proc'[p].call) = "startSession")
RolloverSplit(p) ==
    LET s0 == proc[p].pre.session.v.start
        t  == proc[p].pre.t
        A  == Interval(s0, (DayKey(s0) + 1) * MsPerDay - 1)
        B  == Interval(A.end + 1, t)
        hA == IF A.duration >= 1000
              THEN Added(MapOf(proc[p].pre.history), DayKey(s0), A.duration)
              ELSE MapOf(proc[p].pre.history)
        dA == IF A.duration >= 1000
              THEN Appended(MapOf(proc[p].pre.sessions), DayKey(s0), A)
              ELSE MapOf(proc[p].pre.sessions)
    IN  /\ DayKey(s0) # DayKey(t)
        /\ HistoryMap = IF B.duration >= 1000 THEN Added(hA, DayKey(t), B.duration) ELSE hA
        /\ SessionsMap = IF B.duration >= 1000 THEN Appended(dA, DayKey(B.start), B) ELSE dA
        /\ cache.CURRENT_SESSION = Null /\ store.CURRENT_SESSION = Null
RolloverDone ==
    \A p \in Procs :
        /\ Back(p, "check", "rollEnd") => RolloverSplit(p)
        /\ Back(p, "check", "rollStart") =>
              /\ cache.CURRENT_SESSION.t = "obj"
              /\ DayKey(heap[cache.CURRENT_SESSION.r].start) = DayKey(now)
              /\ store.CURRENT_SESSION = Val(JSONstringify(heap[cache.CURRENT_SESSION.r]))
C27_MidnightRollover == []RolloverDone /\ [][RolloverCalls]_vars
(* The rollover has run to its end and both segments were long enough to   *)
(* be recorded.                                                            *)
C27_Witness ==
    /\ Back("timer", "check", "rollStart")
    /\ DayKey(now) - 1 \in DOMAIN HistoryMap /\ DayKey(now) \in DOMAIN HistoryMap
    /\ DayKey(now) - 1 \in DOMAIN SessionsMap /\ DayKey(now) \in DOMAIN SessionsMap

(* C28: an invocation with a live same-day session and should-track true    *)
(* calls updateSessionHeartbeat exactly when now - lastActive exceeds 5000  *)
(* ms; at 5000 ms or less it ends without a store write and leaves the     *)
(* session, History and SessionDetail as they are.  The store is written   *)
(* only by a step that calls a writer.                                     *)
KeepDue(p) ==
    /\ Truthy(SeenSession(p))
    /\ SeenOnTarget(p) /\ Truthy(proc[p].storedTarget) /\ ~proc[p].isPaused
    /\ DayKey(heap[SeenSession(p).r].start) = DayKey(now)
    /\ proc[p].pc = "session" => now - heap[SeenSession(p).r].lastActive <= 1200000
Beats(p) == proc'[p].pc = "beat" /\ FnOf(proc'[p].call) = "updateSessionHeartbeat"
Writers == {"setManualPause", "startSession", "updateSessionHeartbeat", "endSession"}
HeartbeatThrottled ==
    /\ \A p \in Procs :
          Decides(p) =>
            /\ Beats(p) <=> (KeepDue(p) /\ now - heap[SeenSession(p).r].lastActive > 5000)
            /\ (KeepDue(p) /\ now - heap[SeenSession(p).r].lastActive <= 5000)
               => /\ proc'[p].h = "idle"
                  /\ store' = store
                  /\ cache'.CURRENT_SESSION = cache.CURRENT_SESSION
                  /\ heap'[SeenSession(p).r] = heap[SeenSession(p).r]
    /\ store' # store => \E p \in Procs : FnOf(proc'[p].call) \in Writers
C28_HeartbeatThrottle == [][HeartbeatThrottled]_vars
(* The heartbeat was written 5001 ms after the session's last one. *)
C28_Witness ==
    /\ Back("timer", "check", "beat")
    /\ store.CURRENT_SESSION =
          Val(JSONstringify([start |-> EvalT0, lastActive |-> EvalT0 + 5001]))

(* C29: updateSessionHeartbeat called when no session is live in the cache *)
(* or in the store returns null, writes nothing to the store and leaves    *)
(* the cache slot, History and SessionDetail as they were: it never        *)
(* creates a session.                                                      *)
NoneLiveAtCall(p) ==
    /\ proc[p].pre.session \in {Undefined, Null}
    /\ proc[p].pre.stored = Null
C29_HeartbeatCreatesNothing ==
    \A p \in Procs :
        (Returned(p, "updateSessionHeartbeat") /\ NoneLiveAtCall(p))
        => /\ proc[p].call.val = Null
           /\ cache.CURRENT_SESSION = proc[p].pre.session
           /\ store.CURRENT_SESSION = Null
           /\ store.HISTORY = proc[p].pre.history
           /\ store.SESSIONS = proc[p].pre.sessions
(* The heartbeat came after an endSession that had recorded the session:   *)
(* the cache slot was null and the store had no session.                   *)
C29_Witness ==
    /\ Returned("ui", "updateSessionHeartbeat")
    /\ proc["ui"].pre.session = Null /\ proc["ui"].pre.stored = Null
    /\ proc["ui"].call.reads = 1
    /\ store.HISTORY # Null

(* C30: the network match of an Evaluator invocation is false when the     *)
(* device is not on Wi-Fi, true when it is on Wi-Fi and no raw identifier  *)
(* is stored, and otherwise the oracle's comparison with the stored raw    *)
(* identifier; the background task computes the same value from the same   *)
(* inputs.  Each invocation decides as the decision table does on that     *)
(* value.                                                                  *)
MatchOf(isWifi, storedSSID) ==
    IF ~isWifi THEN FALSE
    ELSE IF storedSSID \in {Null, Undefined, Val(<< >>)} THEN TRUE
    ELSE isConnectedToTargetNetwork(net, storedSSID)
EvalMatches(p) ==
    /\ proc[p].h = "check" /\ Moves(p)
    /\ \/ proc[p].pc = "match"
       \/ /\ Back(p, "check", "session")
          /\ ~FindsStale(p)
          /\ ~(proc[p].isWifi /\ Truthy(proc[p].storedSSID))
BgMatches(p) ==
    /\ proc[p].h = "bg" /\ Moves(p)
    /\ \/ proc[p].pc = "match"
       \/ proc[p].pc = "wifi" /\ ~(OnWifi(net) /\ Truthy(proc[p].storedSSID))
BgIsWifi(p) == IF proc[p].pc = "wifi" THEN OnWifi(net) ELSE proc[p].isWifi
SameMatch ==
    \A p \in Procs :
        /\ EvalMatches(p) =>
              /\ Decide(p, [proc[p] EXCEPT !.session = SeenSession(p),
                                           !.onTarget = MatchOf(proc[p].isWifi, proc[p].storedSSID)],
                        TRUE)
              /\ proc'[p].h = "check" =>
                    proc'[p].onTarget = MatchOf(proc[p].isWifi, proc[p].storedSSID)
        /\ BgMatches(p) =>
              /\ BgDecide(p, [proc[p] EXCEPT !.isWifi = BgIsWifi(p),
                                             !.onTarget = MatchOf(BgIsWifi(p), proc[p].storedSSID)],
                          TRUE)
              /\ proc'[p].onTarget = MatchOf(BgIsWifi(p), proc[p].storedSSID)
C30_SameNetworkMatch == [][SameMatch]_vars
(* The Evaluator and the background task have both found another network   *)
(* than the stored one and are ending the session.                         *)
C30_Witness ==
    /\ At("timer", "check", "stop") /\ ~proc["timer"].onTarget /\ proc["timer"].isWifi
    /\ At("bg", "bg", "end") /\ ~proc["bg"].onTarget /\ proc["bg"].isWifi
    /\ proc["timer"].storedSSID = Val(<<"e">>) /\ proc["bg"].storedSSID = Val(<<"e">>)

(* C31: an Evaluator invocation in which a store operation fails changes   *)
(* nothing; in particular a failed read never causes a session to be       *)
(* started over a live one: no step creates a session while the store      *)
(* holds one.                                                              *)
C31_FailedReadStartsNothing ==
    [][\A p \in Procs : Creates(p) => store.CURRENT_SESSION = Null]_vars

(* C32: a persisted value that does not parse is read as if its key were   *)
(* absent: the reader returns the default it returns for an absent key     *)
(* (null, empty map, empty list, 0, 8.5) and throws nothing.               *)
AbsentDefault(fn, v) ==
    CASE fn = "getGoalHours" -> v = Val(85)
      [] fn = "getCurrentSession" -> v = Null
      [] fn = "getHistory" -> v = Val(EmptyMap)
      [] fn \in {"getTodayDuration", "getDurationForDate"} -> v = Val(0)
      [] fn \in {"getTodaySessions", "getSessionsForDate"} -> v = Val(<< >>)
      [] OTHER -> TRUE
C32_MalformedAsAbsent ==
    \A p \in Procs :
        proc[p].call.fn = "ret" => AbsentDefault(proc[p].call.of, proc[p].call.val)

(* C33: for every day key the History value never decreases and the key is *)
(* never removed, except by clearHistory; every change that endSession     *)
(* makes to a day's value is an increase of at least 1000 ms.              *)
ClearsHistory ==
    \E p \in Procs : FnOf(proc'[p].call) = "clearHistory" /\ FnOf(proc[p].call) # "clearHistory"
WritesHistory ==
    \E p \in Procs : proc[p].call.fn = "endSession" /\ proc[p].call.leaf = "hist"
HistoryStep ==
    store'.HISTORY # store.HISTORY =>
        IF store'.HISTORY = Null
        THEN ClearsHistory
        ELSE /\ WritesHistory
             /\ \A k \in DOMAIN HistoryMap :
                   k \in DOMAIN HistoryMap' /\ HistoryMap'[k] >= HistoryMap[k]
             /\ \A k \in DOMAIN HistoryMap' :
                   HistoryMap'[k] # Lookup(HistoryMap, k, 0)
                   => HistoryMap'[k] - Lookup(HistoryMap, k, 0) >= 1000
C33_HistoryMonotonic == [][HistoryStep]_vars
(* A session has been recorded next to the total of an earlier day. *)
C33_Witness ==
    /\ store.HISTORY # Null
    /\ DayKey(LedgerT0) - 1 \in DOMAIN HistoryMap
    /\ DayKey(LedgerT0) \in DOMAIN HistoryMap

(* C34: every SessionDetail entry has duration = end - start and end >=     *)
(* start; a day's list only grows at its end, and only clearHistory        *)
(* removes or alters an entry.                                             *)
IsPrefix(a, b) == Len(a) <= Len(b) /\ SubSeq(b, 1, Len(a)) = a
EntriesClosed ==
    \A k \in DOMAIN SessionsMap :
        \A i \in 1..Len(SessionsMap[k]) :
            LET e == SessionsMap[k][i]
            IN  e.duration = e.end - e.start /\ e.end >= e.start
ClearsSessions == \E p \in Procs : proc[p].call.fn = "clearHistory"
WritesSessions ==
    \E p \in Procs : proc[p].call.fn = "endSession" /\ proc[p].call.leaf = "det"
SessionsStep ==
    store'.SESSIONS # store.SESSIONS =>
        IF store'.SESSIONS = Null
        THEN ClearsSessions
        ELSE /\ WritesSessions
             /\ \A k \in DOMAIN SessionsMap :
                   k \in DOMAIN SessionsMap' /\ IsPrefix(SessionsMap[k], SessionsMap'[k])
C34_DetailsAppendOnly == []EntriesClosed /\ [][SessionsStep]_vars
(* Both segments of the session that crossed midnight are on their days'   *)
(* lists, next to the entry of an earlier day.                             *)
C34_Witness ==
    /\ store.SESSIONS # Null
    /\ DayKey(LedgerT0) - 1 \in DOMAIN SessionsMap
    /\ DayKey(LedgerT0) \in DOMAIN SessionsMap
    /\ DayKey(LedgerT0) + 1 \in DOMAIN SessionsMap

(* C35: whenever no endSession is in flight (and no clearHistory either),  *)
(* the History value of every day equals the sum of the durations of the   *)
(* SessionDetail entries of that day.                                      *)
RECURSIVE SumDurations(_)
SumDurations(list) ==
    IF list = << >> THEN 0 ELSE Head(list).duration + SumDurations(Tail(list))
LedgerQuiet ==
    \A p \in Procs : FnOf(proc[p].call) \notin {"endSession", "clearHistory"}
C35_HistoryIsSumOfDetails ==
    LedgerQuiet =>
        \A k \in DOMAIN HistoryMap \cup DOMAIN SessionsMap :
            Lookup(HistoryMap, k, 0) = SumDurations(Lookup(SessionsMap, k, << >>))

----------------------------------------------------------------------------
(* Two clients that send heartbeats and end sessions, and never start one: *)
(* the app has just been launched with a session left live in the store,   *)
(* so the cache slot is empty and the first heartbeat reads the store.     *)
BeatClient(p) ==
    \/ CallHeartbeat(p)
    \/ CallEndSession(p)
    \/ ApiResume(p)
    \/ ApiReturn(p)
InitBeat == InitLedger(Observe(TRUE, {}, {}, FALSE), 0)
NextBeat == (\E p \in LedgerClients : BeatClient(p)) \/ Advance(LedgerDeltas, MaxConcAdvances)
SpecBeat == InitBeat /\ [][NextBeat]_vars

(* C36: where nobody calls startSession, a session that endSession has     *)
(* cleared stays cleared: once the store holds no session no step stores   *)
(* one, and once the cache slot is null no step fills it, whichever        *)
(* updateSessionHeartbeat invocations are in flight.                       *)
C36_ClearedStaysCleared ==
    [][/\ store.CURRENT_SESSION = Null => store'.CURRENT_SESSION = Null
       /\ cache.CURRENT_SESSION = Null => cache'.CURRENT_SESSION = Null]_vars

(* C37: the clear step of an endSession invocation removes from the store  *)
(* the session that the invocation read and recorded, never a session      *)
(* that a startSession created after the invocation began.                 *)
ClearStep(p) ==
    /\ proc'[p] # proc[p]
    /\ proc'[p].call.fn = "endSession"
    /\ proc'[p].call.pc = "rm"
    /\ store.CURRENT_SESSION.t = "val"
    /\ store'.CURRENT_SESSION = Null
StoredStart == JSONparse(store.CURRENT_SESSION.v).start
C37_ClearsOwnSession ==
    [][\A p \in Procs :
          ClearStep(p) => StoredStart = heap'[proc'[p].call.sess].start]_vars

----------------------------------------------------------------------------
(* The app in the foreground on the office network, target and raw SSID    *)
(* configured, pause off, every store operation succeeding: the interval   *)
(* timer (App.js 136) invokes the Evaluator every TickMs, and an           *)
(* invocation has completed when the next one is due.  The clock starts    *)
(* six seconds before midnight.                                            *)
TickMs == 1000
SteadyTick(p) ==
    /\ proc[p].h = "idle"
    /\ advances < MaxSteadyTicks
    /\ now' = now + TickMs
    /\ advances' = advances + 1
    /\ proc' = [proc EXCEPT ![p] = [proc[p] EXCEPT !.h = "check", !.pc = "wifi",
                                                    !.off = FALSE, !.began = "none"]]
    /\ UNCHANGED <<cache, store, heap, isEnding, net, fails, finalized, observe>>
SteadySteps(p) == OnWifiSteps(p) \/ CheckRollover(p)
InitSteady ==
    /\ observe = Observe(FALSE, {}, {}, FALSE)
    /\ fails = 0
    /\ now = EvalT0
    /\ cache = EmptyCache
    /\ \E s \in EvalSessions :
           store = [EmptyStore EXCEPT !.TARGET_SSID = Val(<<"h">>), !.RAW_SSID = Val(<<"e">>),
                                      !.CURRENT_SESSION = s]
    /\ heap = [r \in Refs |-> Free]
    /\ isEnding = FALSE
    /\ proc = [p \in Procs |-> IdleProc]
    /\ net = Wifi(Val(<<"q", "e", "q">>))
    /\ advances = 0
    /\ finalized = << >>
NextSteady == SteadyTick("timer") \/ SteadySteps("timer")
SpecSteady == InitSteady /\ [][NextSteady]_vars

(* C38: while the Evaluator is invoked every 1000 ms on the target network *)
(* with the pause off and the store working, the lastActive of the live    *)
(* session never lags the clock by more than the heartbeat throttle plus   *)
(* one tick (6000 ms, far below the 20 minutes of the stale-session        *)
(* check), and no invocation takes the stale-session branch.                *)
StoredLastActive == JSONparse(store.CURRENT_SESSION.v).lastActive
C38_TrackedNeverStale ==
    /\ LiveNow => now - StoredLastActive <= 5000 + 1000
    /\ LiveNow => now - StoredLastActive <= 20 * 60 * 1000
    /\ \A p \in Procs : proc[p].pc # "zombie"
C38_Witness ==
    /\ Back("timer", "check", "beat")
    /\ proc["timer"].call.of = "updateSessionHeartbeat"
    /\ LiveNow /\ StoredLastActive = now
    /\ DayKey(now) # DayKey(EvalT0)

----------------------------------------------------------------------------
(* One client while the device clock is adjusted: Date.now() is the wall   *)
(* clock, which the user or the network time can set forward or back by a  *)
(* day between two calls.                                                  *)
ClockT0 == MsPerDay + LedgerT0
ClockDeltas == {0 - MsPerDay, 1000, MsPerDay}
ClockSessions == {Null, Val(JSONstringify([start |-> ClockT0, lastActive |-> ClockT0]))}
InitClock ==
    /\ observe = Observe(TRUE, AllFns, {}, FALSE)
    /\ fails = 0
    /\ now = ClockT0
    /\ cache = EmptyCache
    /\ \E s \in ClockSessions : store = [EmptyStore EXCEPT !.CURRENT_SESSION = s]
    /\ heap = [r \in Refs |-> Free]
    /\ isEnding = FALSE
    /\ proc = [p \in Procs |-> IdleProc]
    /\ net = NoNet
    /\ advances = 0
    /\ finalized = << >>
NextClock == LedgerClient("ui") \/ Advance(ClockDeltas, MaxAppAdvances)
SpecClock == InitClock /\ [][NextClock]_vars

(* C39: what one endSession invocation adds to History, summed over all    *)
(* day keys, is at most max(0, now - start) for the session it ended.      *)
RECURSIVE SumOver(_, _)
SumOver(m, ks) ==
    IF ks = {} THEN 0
    ELSE LET k == CHOOSE d \in ks : TRUE IN m[k] + SumOver(m, ks \ {k})
Total(m) == SumOver(m, DOMAIN m)
Max0(x) == IF x > 0 THEN x ELSE 0
AddedByEnd(p) == Total(HistoryMap) - Total(MapOf(proc[p].pre.history))
C39_NoTimeOutsideInterval ==
    \A p \in Procs :
        Ended(p) => AddedByEnd(p) <= Max0(EndedNow(p) - EndedStart(p))

(* C40: on the same inputs the background task acts on the session as the *)
(* Evaluator's decision table does.  A run of the task that has read no    *)
(* target or a set pause (should-track false) and returns without a        *)
(* session call does so only when no session is live, the Evaluator        *)
(* ending a live one on those inputs; and the task starts a session only   *)
(* on the target network with a target configured and no session read.     *)
BgQuits(p) == Back(p, "bg", "pause") /\ Moves(p) /\ proc'[p].h = "idle"
BgStarts(p) == Back(p, "bg", "session") /\ Creates(p)
SameAction ==
    \A p \in Procs :
        /\ BgQuits(p) => ~LiveNow
        /\ BgStarts(p) => /\ proc[p].onTarget /\ Truthy(proc[p].storedTarget)
                          /\ ~Truthy(proc[p].call.val)
C40_SameSessionAction == [][SameAction]_vars

============================================================================
